---- MODULE Spec2Model ----
(***************************************************************************)
(* A model of the think-mcp session engine: the text metrics, the          *)
(* sequence/duplicate/branch/revision validator, the stagnation detector,  *)
(* the burst validator, the in-memory session store of ThinkingService and *)
(* its persistence (chained-promise mutex, write-temp-then-rename).        *)
(*                                                                         *)
(* Conventions for optional values of the TypeScript source:               *)
(*   - an absent number (revisesThought, branchFromThought, confidence) is *)
(*     0; the tool schema only admits integers >= 1 for them;              *)
(*   - an absent or empty string (goal, branchId, currentSessionId) is ""  *)
(*     or 0 for the session id: the source tests them by truthiness;       *)
(*   - a session id is `new Date().toISOString()`: the reading of the      *)
(*     millisecond clock, modelled by the integer variable clock.          *)
(* Texts are TLA+ strings over ASCII letters and the blank.                *)
(***************************************************************************)
EXTENDS Integers, Sequences, FiniteSets, TLC

(***************************************************************************)
(* Text metrics (utils/text-analysis.ts)                                   *)
(***************************************************************************)

\* One character of a string.
CharAt(s, i) == SubSeq(s, i, i)

UpperChars == <<"A","B","C","D","E","F","G","H","I","J","K","L","M",
                "N","O","P","Q","R","S","T","U","V","W","X","Y","Z">>
LowerChars == <<"a","b","c","d","e","f","g","h","i","j","k","l","m",
                "n","o","p","q","r","s","t","u","v","w","x","y","z">>

\* String.prototype.toLowerCase on one character.
LowerChar(c) ==
  IF \E k \in DOMAIN UpperChars : UpperChars[k] = c
    THEN LowerChars[CHOOSE k \in DOMAIN UpperChars : UpperChars[k] = c]
    ELSE c

RECURSIVE ToLowerCase(_)
ToLowerCase(s) ==
  IF Len(s) = 0 THEN ""
  ELSE LowerChar(CharAt(s, 1)) \o ToLowerCase(SubSeq(s, 2, Len(s)))

\* FILLER_PHRASES in source order (the order of the alternatives of
\* FILLER_PATTERN).  The Russian entries are left out: no text of the model
\* holds a Cyrillic letter, so those alternatives never match.
FILLER_PHRASES ==
  << "in this step", "i will", "let me", "now i", "first", "next", "then",
     "carefully", "analyze", "consider", "looking at", "examining", "reviewing",
     "based on", "according to", "as we can see", "it appears that",
     "the", "a", "an", "of", "is", "to", "and", "or", "but", "in", "on", "at",
     "for", "with", "this", "that", "it", "be", "are", "was", "were", "been" >>

TECHNICAL_SHORT_TERMS ==
  { "api", "ui", "db", "id", "io", "os", "ip", "url", "css", "sql", "xml", "jwt",
    "mcp", "cli", "sdk", "cdn", "dns", "ssh", "ssl", "tls", "http", "json",
    "yaml", "toml" }

\* Does phrase p occur in s at position i?
MatchesAt(s, i, p) ==
  /\ i + Len(p) - 1 <= Len(s)
  /\ SubSeq(s, i, i + Len(p) - 1) = p

\* Length of the match of FILLER_PATTERN at position i of s (0: no match):
\* a regular-expression alternation takes the first alternative that matches.
FillerMatchLen(s, i) ==
  LET hits == { k \in DOMAIN FILLER_PHRASES : MatchesAt(s, i, FILLER_PHRASES[k]) }
  IN  IF hits = {} THEN 0
      ELSE Len(FILLER_PHRASES[CHOOSE k \in hits : \A j \in hits : k <= j])

\* s.replace(FILLER_PATTERN, '') from position i on (flags g, i; s is lower case).
RECURSIVE StripFillersFrom(_, _)
StripFillersFrom(s, i) ==
  IF i > Len(s) THEN ""
  ELSE LET n == FillerMatchLen(s, i)
       IN  IF n > 0 THEN StripFillersFrom(s, i + n)
           ELSE CharAt(s, i) \o StripFillersFrom(s, i + 1)

\* s.split(/\s+/) without the empty strings a leading or trailing blank run
\* produces (every caller filters them out: "" is neither longer than 2 nor a
\* technical term).  cur is the token being read.
RECURSIVE SplitFrom(_, _, _)
SplitFrom(s, i, cur) ==
  IF i > Len(s) THEN (IF cur = "" THEN << >> ELSE << cur >>)
  ELSE IF CharAt(s, i) = " "
         THEN (IF cur = "" THEN << >> ELSE << cur >>) \o SplitFrom(s, i + 1, "")
         ELSE SplitFrom(s, i + 1, cur \o CharAt(s, i))

SplitWords(s) == SplitFrom(s, 1, "")

\* s.trim().length
RECURSIVE TrimStart(_)
TrimStart(s) ==
  IF Len(s) > 0 /\ CharAt(s, 1) = " " THEN TrimStart(SubSeq(s, 2, Len(s))) ELSE s

RECURSIVE TrimEnd(_)
TrimEnd(s) ==
  IF Len(s) > 0 /\ CharAt(s, Len(s)) = " " THEN TrimEnd(SubSeq(s, 1, Len(s) - 1)) ELSE s

Trim(s) == TrimEnd(TrimStart(s))

\* words.join(' ')
RECURSIVE JoinWords(_)
JoinWords(ws) ==
  IF ws = << >> THEN ""
  ELSE IF Len(ws) = 1 THEN ws[1]
  ELSE ws[1] \o " " \o JoinWords(Tail(ws))

\* normalizeForComparison: lower case, fillers removed, blank runs collapsed
\* to one blank, trimmed.
NormalizeForComparison(text) ==
  JoinWords(SplitWords(StripFillersFrom(ToLowerCase(text), 1)))

\* The filter of getWordSet and calculateWordEntropy.
QualifyingWord(w) == Len(w) > 2 \/ ToLowerCase(w) \in TECHNICAL_SHORT_TERMS

\* The positions of the tokens that pass the filter.
QualifyingPositions(ws) == { j \in DOMAIN ws : QualifyingWord(ws[j]) }

\* new Set(words.filter(...))
QualifyingSet(ws) == { ws[k] : k \in QualifyingPositions(ws) }

\* getWordSet without its cache: the token set of the normalized text.
WordSetOf(text) == QualifyingSet(SplitWords(NormalizeForComparison(text)))

\* unique.size / words.length over the filtered tokens ws; 0/1 when none.
EntropyOfWords(ws) ==
  IF QualifyingPositions(ws) = {} THEN [num |-> 0, den |-> 1]
  ELSE [num |-> Cardinality(QualifyingSet(ws)),
        den |-> Cardinality(QualifyingPositions(ws))]

\* calculateWordEntropy as the fraction unique/total of the qualifying tokens
\* of the raw lower-cased text.
WordEntropyOf(text) == EntropyOfWords(SplitWords(ToLowerCase(text)))


\* calculateJaccardSimilarity as the fraction |A \cap B| / |A \cup B| of the two
\* token sets; 0/1 when either set is empty.  The source compares the
\* quotient, a double, with decimal literals; on these small integers the
\* comparison of the exact fractions gives the same answer.
JaccardOfSets(words1, words2) ==
  IF words1 = {} \/ words2 = {} THEN [num |-> 0, den |-> 1]
  ELSE [num |-> Cardinality(words1 \cap words2),
        den |-> Cardinality(words1 \cup words2)]

JaccardOf(text1, text2) == JaccardOfSets(WordSetOf(text1), WordSetOf(text2))

(***************************************************************************)
(* The texts, goals and other input values of the model                    *)
(***************************************************************************)

T_EMPTY   == ""
T_BLANK   == "  "
T_CACHE   == "cache index queue db url"
T_CACHE2  == "The Cache index queue db url"
T_PARSE   == "parse token stream"
T_REPEAT  == "url url url url url"
T_STOP    == "it is ok"
\* Texts of at least BURST_LIMITS.minThoughtLength characters.
L_CACHE   == "cache index queue db url token stream parser lexer grammar"
L_CACHE2  == "The cache index queue db url token stream parser lexer grammar"
L_MUTEX   == "mutex lock promise chain release waiter handle rename unlink"
L_GRAPH   == "graph vertex edge reachable predecessor branch revision walk"
\* At least minThoughtLength characters, none of them in a word that counts.
L_STOP    == "it is ok it is ok it is ok it is ok it is ok it is ok it is ok"

Texts == { T_EMPTY, T_BLANK, T_CACHE, T_CACHE2, T_PARSE, T_REPEAT, T_STOP,
           L_CACHE, L_CACHE2, L_MUTEX, L_GRAPH, L_STOP }

G_NONE  == ""
G_SHORT == "too short"
G_GOAL  == "design the session store"
G_OTHER == "review the persistence layer"
Goals == { G_NONE, G_SHORT, G_GOAL, G_OTHER }

\* The metrics of every text of the model, computed once (@@ makes TLC
\* tabulate the function instead of keeping its defining expression).
WordSetTable   == [ t \in Texts |-> WordSetOf(t) ] @@ << >>
JaccardTable   == [ p \in Texts \X Texts |-> JaccardOf(p[1], p[2]) ] @@ << >>
EntropyTable   == [ t \in Texts |-> WordEntropyOf(t) ] @@ << >>
TrimLenTable   == [ t \in Texts \cup Goals |-> Len(Trim(t)) ] @@ << >>

calculateJaccardSimilarity(text1, text2) == JaccardTable[<<text1, text2>>]
calculateWordEntropy(text) == EntropyTable[text]
TrimmedLength(text) == TrimLenTable[text]

\* fraction > pct/100, fraction >= permille/1000, fraction < pct/100
FracGtPct(f, pct)        == f.num * 100 > pct * f.den
FracGePermille(f, pm)    == f.num * 1000 >= pm * f.den
FracLtPct(f, pct)        == f.num * 100 < pct * f.den

(***************************************************************************)
(* Constants of the source                                                 *)
(***************************************************************************)

SHALLOW_REVISION_PCT     == 85
CIRCULAR_REVISION_PCT    == 80
STAGNATION_CHECK_COUNT   == 3
MIN_ENTROPY_THRESHOLD    == 25
JACCARD_STAGNATION_BASE  == 600
JACCARD_STAGNATION_MAX   == 850
JACCARD_DEPTH_FACTOR     == 15
STAGNATION_MIN_LENGTH    == 20
LOW_CONFIDENCE_MEAN      == 5

Min(a, b) == IF a <= b THEN a ELSE b
Max(a, b) == IF a >= b THEN a ELSE b

\* A threshold that grows with the depth without a maximum.
getStagnationThresholdUncapped(thoughtCount) ==
  JACCARD_STAGNATION_BASE + thoughtCount * JACCARD_DEPTH_FACTOR

\* getStagnationThreshold, in thousandths.
getStagnationThreshold(thoughtCount) ==
  JACCARD_STAGNATION_BASE
    + Min(JACCARD_STAGNATION_MAX - JACCARD_STAGNATION_BASE,
          thoughtCount * JACCARD_DEPTH_FACTOR)

(***************************************************************************)
(* ValidationService                                                       *)
(***************************************************************************)

NoWarning == "none"

\* Array.prototype.find: the first element with the given thoughtNumber.
FindThought(sessionThoughts, n) ==
  sessionThoughts[CHOOSE i \in DOMAIN sessionThoughts :
                    /\ sessionThoughts[i].thoughtNumber = n
                    /\ \A j \in 1..(i - 1) : sessionThoughts[j].thoughtNumber # n]

HasThought(sessionThoughts, n) ==
  \E i \in DOMAIN sessionThoughts : sessionThoughts[i].thoughtNumber = n

\* The revision part of validateSequence (its first block).
RevisionFinding(input, sessionThoughts) ==
  IF ~ (input.isRevision /\ input.revisesThought # 0) THEN NoWarning
  ELSE IF ~ HasThought(sessionThoughts, input.revisesThought) THEN "invalid_revision"
  ELSE IF FracGtPct(calculateJaccardSimilarity(input.thought,
                       FindThought(sessionThoughts, input.revisesThought).thought),
                    SHALLOW_REVISION_PCT)
         THEN "shallow_revision"
  ELSE IF \E i \in DOMAIN sessionThoughts :
            /\ sessionThoughts[i].thoughtNumber < input.revisesThought
            /\ ~ sessionThoughts[i].isRevision
            /\ FracGtPct(calculateJaccardSimilarity(input.thought,
                                                    sessionThoughts[i].thought),
                         CIRCULAR_REVISION_PCT)
         THEN "circular_revision"
  ELSE NoWarning

\* An ordering check that demands thoughtNumber = lastThoughtNumber + 1.
SequenceFindingExact(input, lastThoughtNumber) ==
  IF input.isRevision \/ input.branchFromThought # 0 THEN NoWarning
  ELSE IF input.thoughtNumber # lastThoughtNumber + 1 THEN "sequence_break"
  ELSE NoWarning

\* The ordering part of validateSequence (after the revision block).
SequenceFinding(input, lastThoughtNumber) ==
  IF input.isRevision \/ input.branchFromThought # 0 THEN NoWarning
  ELSE IF lastThoughtNumber = 0 THEN NoWarning
  ELSE IF input.thoughtNumber > lastThoughtNumber + 1 THEN "sequence_break"
  ELSE NoWarning

SequenceVerdict(w) == [valid |-> w = NoWarning, warning |-> w]

validateSequence(input, sessionThoughts, lastThoughtNumber) ==
  SequenceVerdict(IF RevisionFinding(input, sessionThoughts) # NoWarning
                    THEN RevisionFinding(input, sessionThoughts)
                    ELSE SequenceFinding(input, lastThoughtNumber))

\* A duplicate check that finds nothing.
checkDuplicateNever(input, sessionThoughts) == NoWarning

checkDuplicateStrict(input, sessionThoughts) ==
  IF input.isRevision THEN NoWarning
  ELSE IF HasThought(sessionThoughts, input.thoughtNumber) THEN "duplicate"
  ELSE NoWarning

\* A validator that lets every branch origin pass.
validateBranchSourceNever(input, sessionThoughts) == NoWarning

validateBranchSource(input, sessionThoughts) ==
  IF input.branchFromThought = 0 THEN NoWarning
  ELSE IF ~ HasThought(sessionThoughts, input.branchFromThought) THEN "invalid_branch"
  ELSE NoWarning

\* new Map(sessionThoughts.map(t => [t.thoughtNumber, t])).get(n): of the
\* thoughts with the same number the last one is kept.
PathMapGet(sessionThoughts, n) ==
  sessionThoughts[CHOOSE i \in DOMAIN sessionThoughts :
                    /\ sessionThoughts[i].thoughtNumber = n
                    /\ \A j \in (i + 1)..Len(sessionThoughts) :
                         sessionThoughts[j].thoughtNumber # n]

\* A predecessor set without the place after the thought that the previous
\* thought revises.
PathPredecessorOfRevisedNone(previous, sessionThoughts) == {}

\* `if (previousThought?.isRevision && previousThought.revisesThought)`
PathPredecessorOfRevised(previous, sessionThoughts) ==
  IF /\ HasThought(sessionThoughts, previous)
     /\ PathMapGet(sessionThoughts, previous).isRevision
     /\ PathMapGet(sessionThoughts, previous).revisesThought # 0
    THEN { PathMapGet(sessionThoughts, previous).revisesThought + 1 }
    ELSE {}

\* validPredecessors of the thought currentThought numbered current.
PathValidPredecessors(current, currentThought, previous, sessionThoughts) ==
  { current - 1 }
    \cup (IF currentThought.branchFromThought # 0
            THEN { currentThought.branchFromThought } ELSE {})
    \cup (IF currentThought.isRevision /\ currentThought.revisesThought # 0
            THEN { currentThought.revisesThought, currentThought.revisesThought - 1 }
            ELSE {})
    \cup PathPredecessorOfRevised(previous, sessionThoughts)

\* Does the loop of validatePathConnectivity return at position i (1-based)?
PathBreakAt(winningPath, sessionThoughts, i) ==
  \/ ~ HasThought(sessionThoughts, winningPath[i])
  \/ winningPath[i - 1] \notin
       PathValidPredecessors(winningPath[i],
                             PathMapGet(sessionThoughts, winningPath[i]),
                             winningPath[i - 1], sessionThoughts)

\* The first position from i on at which the loop returns; 0 when it runs
\* to its end.
RECURSIVE PathFirstBreak(_, _, _)
PathFirstBreak(winningPath, sessionThoughts, i) ==
  IF i > Len(winningPath) THEN 0
  ELSE IF PathBreakAt(winningPath, sessionThoughts, i) THEN i
  ELSE PathFirstBreak(winningPath, sessionThoughts, i + 1)

\* The PathConnectivityResult for the position b of the first break
\* (disconnectedAt 0: undefined).
PathVerdict(winningPath, b) ==
  [ valid |-> b = 0,
    disconnectedAt |-> IF b = 0 THEN 0 ELSE winningPath[b] ]

validatePathConnectivity(winningPath, sessionThoughts) ==
  IF Len(winningPath) <= 1 THEN PathVerdict(winningPath, 0)
  ELSE PathVerdict(winningPath, PathFirstBreak(winningPath, sessionThoughts, 2))

(***************************************************************************)
(* StagnationService                                                       *)
(***************************************************************************)

\* The last n elements of a sequence (Array.prototype.slice(-n)).
LastN(s, n) == SubSeq(s, Max(1, Len(s) - n + 1), Len(s))

\* Is the mean of the three fractions below pct/100?
MeanOf3LtPct(f1, f2, f3, pct) ==
  (f1.num * f2.den * f3.den + f2.num * f1.den * f3.den + f3.num * f1.den * f2.den) * 100
    < pct * 3 * f1.den * f2.den * f3.den

\* similarities.every((s) => s >= adaptiveThreshold)
AllHighlySimilar(newThought, recent, adaptiveThreshold) ==
  \A i \in DOMAIN recent :
    FracGePermille(calculateJaccardSimilarity(newThought, recent[i].thought),
                   adaptiveThreshold)

\* newEntropy < MIN_ENTROPY_THRESHOLD && avgRecentEntropy < MIN_ENTROPY_THRESHOLD
LowEntropy(newThought, recent) ==
  /\ FracLtPct(calculateWordEntropy(newThought), MIN_ENTROPY_THRESHOLD)
  /\ MeanOf3LtPct(calculateWordEntropy(recent[1].thought),
                  calculateWordEntropy(recent[2].thought),
                  calculateWordEntropy(recent[3].thought),
                  MIN_ENTROPY_THRESHOLD)

\* All three recent thoughts carry a confidence, it never rises and its mean
\* is below 5.
ConfidenceDrop(recent) ==
  /\ \A i \in DOMAIN recent : recent[i].confidence # 0
  /\ \A i \in 2..Len(recent) : recent[i].confidence <= recent[i - 1].confidence
  /\ recent[1].confidence + recent[2].confidence + recent[3].confidence
       < LOW_CONFIDENCE_MEAN * 3

StagnationFinding(newThought, recent, adaptiveThreshold) ==
  IF /\ AllHighlySimilar(newThought, recent, adaptiveThreshold)
     /\ TrimmedLength(newThought) > STAGNATION_MIN_LENGTH
    THEN "stagnation"
  ELSE IF LowEntropy(newThought, recent) THEN "low_entropy"
  ELSE IF ConfidenceDrop(recent) THEN "confidence_declining"
  ELSE NoWarning

detectStagnation(newThought, thoughtHistory) ==
  IF Len(thoughtHistory) < STAGNATION_CHECK_COUNT THEN NoWarning
  ELSE StagnationFinding(newThought, LastN(thoughtHistory, STAGNATION_CHECK_COUNT),
                         getStagnationThreshold(Len(thoughtHistory)))

(***************************************************************************)
(* ThinkingService: the session store                                      *)
(*                                                                         *)
(* A ThoughtRecord keeps the fields of the input that the engine reads     *)
(* (thought, thoughtNumber, isRevision, revisesThought, branchFromThought, *)
(* branchId, confidence), the sessionId and the extensions.  totalThoughts,*)
(* nextThoughtNeeded, subSteps, alternatives and the timestamps only feed  *)
(* the rendering and coaching collaborators and are left out.              *)
(***************************************************************************)

VARIABLES
  thoughtHistory,     \* ThoughtRecord[]
  branches,           \* Map<string, ThoughtRecord[]>: a function on its keys
  lastThoughtNumber,
  sessionGoal,        \* "" when undefined
  currentSessionId,   \* 0 when ''
  deadEnds,           \* DeadEnd[]
  clock,              \* the millisecond clock read by new Date()
  result              \* what the last call returned (the fields the claims read)

storeVars == << thoughtHistory, branches, lastThoughtNumber, sessionGoal,
                currentSessionId, deadEnds >>

\* The store as one value.
Store ==
  [ thoughtHistory    |-> thoughtHistory,
    branches          |-> branches,
    lastThoughtNumber |-> lastThoughtNumber,
    sessionGoal       |-> sessionGoal,
    currentSessionId  |-> currentSessionId,
    deadEnds          |-> deadEnds ]

\* The fields of a new ThinkingService.
EmptyStore ==
  [ thoughtHistory    |-> << >>,
    branches          |-> << >>,
    lastThoughtNumber |-> 0,
    sessionGoal       |-> "",
    currentSessionId  |-> 0,
    deadEnds          |-> << >> ]

\* A reset() that leaves the goal and the dead ends alone.
ResetKeepingGoal(st) ==
  [ EmptyStore EXCEPT !.sessionGoal = st.sessionGoal, !.deadEnds = st.deadEnds ]

\* reset(): every field back to its initial value.
Reset(st) == EmptyStore

\* getCurrentSessionStartIndex, 1-based: the last non-revision thought
\* numbered 1, or the first position when there is none.
getCurrentSessionStartIndex(st) ==
  LET h    == st.thoughtHistory
      ones == { i \in DOMAIN h : h[i].thoughtNumber = 1 /\ ~ h[i].isRevision }
  IN  IF ones = {} THEN 1 ELSE CHOOSE i \in ones : \A j \in ones : j <= i

\* Array.prototype.filter by session id.
RECURSIVE FilterBySession(_, _)
FilterBySession(h, sid) ==
  IF h = << >> THEN << >>
  ELSE (IF Head(h).sessionId = sid THEN << Head(h) >> ELSE << >>)
         \o FilterBySession(Tail(h), sid)

getCurrentSessionThoughts(st) ==
  IF st.currentSessionId # 0
    THEN FilterBySession(st.thoughtHistory, st.currentSessionId)
    ELSE SubSeq(st.thoughtHistory, getCurrentSessionStartIndex(st),
                Len(st.thoughtHistory))

NoExtension == [type |-> "none", content |-> "", impact |-> "none"]

\* The ThoughtRecord built from an input (`{...input, timestamp, sessionId}`).
RecordOf(input, sessionId) ==
  [ thought           |-> input.thought,
    thoughtNumber     |-> input.thoughtNumber,
    isRevision        |-> input.isRevision,
    revisesThought    |-> input.revisesThought,
    branchFromThought |-> input.branchFromThought,
    branchId          |-> input.branchId,
    confidence        |-> input.confidence,
    sessionId         |-> sessionId,
    extensions        |-> << >> ]

\* Map.get(key) ?? []
BranchGet(br, id) == IF id \in DOMAIN br THEN br[id] ELSE << >>

\* Map.set(key, value)
BranchSet(br, id, v) == [ k \in (DOMAIN br) \cup {id} |-> IF k = id THEN v ELSE br[k] ]

\* The ThoughtExtension built by processQuickExtension (`impact ?? 'medium'`).
ExtensionOf(q) ==
  [ type    |-> q.type,
    content |-> q.content,
    impact  |-> IF q.impact = "none" THEN "medium" ELSE q.impact ]

\* A sequence with its last element replaced.
ReplaceLast(seq, x) == [ seq EXCEPT ![Len(seq)] = x ]

\* The store with record rec in the place of the record just added.
ReplaceAdded(st, input, rec) ==
  [ st EXCEPT
      !.thoughtHistory = ReplaceLast(@, rec),
      !.branches = IF input.branchFromThought # 0 /\ input.branchId # ""
                     THEN BranchSet(@, input.branchId,
                                    ReplaceLast(BranchGet(@, input.branchId), rec))
                     ELSE @ ]

\* processQuickExtension: the extension is pushed on the record just added,
\* the same object in thoughtHistory and, when it was pushed there, in its
\* branch.
WithQuickExtension(st, input) ==
  IF input.quickExtension = NoExtension THEN st
  ELSE ReplaceAdded(st, input,
         [ st.thoughtHistory[Len(st.thoughtHistory)] EXCEPT
             !.extensions = Append(@, ExtensionOf(input.quickExtension)) ])

\* `!input.thought || !input.thought.trim()`
IsEmptyThought(input) == TrimmedLength(input.thought) = 0

\* A processThought that turns away every submission validateSequence faults.
IsAnyInvalidRejection(validation, input) == ~ validation.valid

\* A processThought that stores invalid revisions like invalid fresh thoughts.
IsNeverHardRevisionRejection(validation, input) == FALSE

\* `!validation.valid && input.isRevision`: an invalid revision is rejected,
\* an invalid fresh thought is stored with the warning.
IsHardRevisionRejection(validation, input) == ~ validation.valid /\ input.isRevision

\* The early `return { ..., isError: true, errorMessage, warning }`.
Rejection(st, calls, message) ==
  [ store  |-> st,
    calls  |-> calls,
    result |-> [ op |-> "processThought", isError |-> TRUE, warning |-> message,
                 stagnation |-> NoWarning ] ]

\* The record is pushed, lastThoughtNumber set and the branch extended.
StoreRecord(st, input, record) ==
  [ st EXCEPT
      !.thoughtHistory = Append(@, record),
      !.lastThoughtNumber = input.thoughtNumber,
      !.branches =
        IF input.branchFromThought # 0 /\ input.branchId # ""
          THEN BranchSet(@, input.branchId,
                         Append(BranchGet(@, input.branchId), record))
          ELSE @ ]

\* The tail of processThought: the record is stored, a save requested and
\* the quick extension attached.
Admission(st, input, calls, validation, stagnationWarning) ==
  [ store  |-> WithQuickExtension(
                 StoreRecord(st, input, RecordOf(input, st.currentSessionId)), input),
    calls  |-> Append(calls, "save"),
    result |-> [ op |-> "processThought", isError |-> FALSE,
                 warning |-> validation.warning, stagnation |-> stagnationWarning ] ]

\* A processThought without the auto-reset.
IsAutoResetNever(st, input) == FALSE

\* `input.thoughtNumber === 1 && this.thoughtHistory.length > 0 && !input.isRevision`
IsAutoReset(st, input) ==
  input.thoughtNumber = 1 /\ Len(st.thoughtHistory) > 0 /\ ~ input.isRevision

\* The persistence calls of the auto-reset.
AutoResetCalls(st, input) == IF IsAutoReset(st, input) THEN << "clear" >> ELSE << >>

\* `if (input.thoughtNumber === 1 && !input.isRevision) this.currentSessionId = ...`
WithSessionId(st, input, now) ==
  IF input.thoughtNumber = 1 /\ ~ input.isRevision
    THEN [ st EXCEPT !.currentSessionId = now ] ELSE st

\* The store after the auto-reset and the assignment of the session id.
SessionOpened(st, input, now) ==
  WithSessionId(IF IsAutoReset(st, input) THEN Reset(st) ELSE st, input, now)

\* `if (input.goal && input.thoughtNumber === 1) this.sessionGoal = input.goal`
WithGoal(st, input) ==
  IF input.goal # "" /\ input.thoughtNumber = 1
    THEN [ st EXCEPT !.sessionGoal = input.goal ] ELSE st

\* A processThought that validates the branch origin before the duplicate.
DecideBranchFirst(st, input, calls, duplicateError, branchError, validation) ==
  IF branchError # NoWarning THEN Rejection(st, calls, branchError)
  ELSE IF duplicateError # NoWarning THEN Rejection(st, calls, duplicateError)
  ELSE IF IsHardRevisionRejection(validation, input)
    THEN Rejection(st, calls, validation.warning)
  ELSE Admission(st, input, calls, validation,
                 detectStagnation(input.thought, st.thoughtHistory))

\* The three validations in the order of the source and what follows.
Decide(st, input, calls, duplicateError, branchError, validation) ==
  IF duplicateError # NoWarning THEN Rejection(st, calls, duplicateError)
  ELSE IF branchError # NoWarning THEN Rejection(st, calls, branchError)
  ELSE IF IsHardRevisionRejection(validation, input)
    THEN Rejection(st, calls, validation.warning)
  ELSE Admission(st, input, calls, validation,
                 detectStagnation(input.thought, st.thoughtHistory))

Validate(st, input, calls, sessionThoughts) ==
  Decide(st, input, calls,
         checkDuplicateStrict(input, sessionThoughts),
         validateBranchSource(input, sessionThoughts),
         validateSequence(input, sessionThoughts, st.lastThoughtNumber))

\* processThought from the empty-thought check on.
Examine(st, input, calls) ==
  IF IsEmptyThought(input) THEN Rejection(st, calls, "empty")
  ELSE Validate(WithGoal(st, input), input, calls,
                getCurrentSessionThoughts(WithGoal(st, input)))

\* processThought(input) on store st when the clock reads now: the store
\* after the call, the persistence calls it makes (in order) and the result.
processThought(st, input, now) ==
  Examine(SessionOpened(st, input, now), input, AutoResetCalls(st, input))

(***************************************************************************)
(* BurstService                                                            *)
(***************************************************************************)

BURST_MAX_THOUGHTS        == 30
BURST_MAX_THOUGHT_LENGTH  == 1000
BURST_MIN_THOUGHT_LENGTH  == 50
BURST_MAX_STAGNATION_PCT  == 60
BURST_MIN_AVG_ENTROPY_PCT == 25
BURST_MIN_AVG_CONFIDENCE  == 4
BURST_MIN_GOAL_LENGTH     == 10
BURST_STAGNATION_MIN_SIZE == 3
BURST_ENTROPY_MIN_SIZE    == 5

NoConsolidation == [winningPath |-> << >>, verdict |-> "none"]

\* Array.prototype.sort by thoughtNumber (stable): insertion of x after the
\* elements that are not greater.
RECURSIVE InsertSorted(_, _)
InsertSorted(sorted, x) ==
  IF sorted = << >> THEN << x >>
  ELSE IF Head(sorted).thoughtNumber <= x.thoughtNumber
         THEN << Head(sorted) >> \o InsertSorted(Tail(sorted), x)
         ELSE << x >> \o sorted

RECURSIVE SortByNumber(_)
SortByNumber(thoughts) ==
  IF thoughts = << >> THEN << >>
  ELSE InsertSorted(SortByNumber(SubSeq(thoughts, 1, Len(thoughts) - 1)),
                    thoughts[Len(thoughts)])

\* The sum of the fractions f[1..n] as one fraction.
RECURSIVE FracSum(_, _)
FracSum(f, n) ==
  IF n = 0 THEN [num |-> 0, den |-> 1]
  ELSE LET r == FracSum(f, n - 1)
       IN  [num |-> r.num * f[n].den + f[n].num * r.den, den |-> r.den * f[n].den]

\* Phase 2: the sorted thoughts are numbered 1.. by position, revisions
\* exempt; no thoughtNumber occurs twice among the non-revisions.
BurstPositionBreak(sorted) ==
  \E i \in DOMAIN sorted : sorted[i].thoughtNumber # i /\ ~ sorted[i].isRevision

BurstSequenceErrors(thoughts) ==
      (IF BurstPositionBreak(SortByNumber(thoughts))
         THEN {"sequence_break"} ELSE {})
      \cup
      (IF \E i, j \in DOMAIN thoughts :
            /\ i < j
            /\ ~ thoughts[i].isRevision /\ ~ thoughts[j].isRevision
            /\ thoughts[i].thoughtNumber = thoughts[j].thoughtNumber
         THEN {"duplicate"} ELSE {})

\* Phase 3: length, revision targets and branch origins of every thought.
BurstContentErrors(thoughts) ==
  (IF \E i \in DOMAIN thoughts : Len(thoughts[i].thought) < BURST_MIN_THOUGHT_LENGTH
     THEN {"too_short"} ELSE {})
  \cup
  (IF \E i \in DOMAIN thoughts :
        /\ thoughts[i].isRevision /\ thoughts[i].revisesThought # 0
        /\ ~ HasThought(thoughts, thoughts[i].revisesThought)
     THEN {"revision_target"} ELSE {})
  \cup
  (IF \E i \in DOMAIN thoughts :
        /\ thoughts[i].branchFromThought # 0
        /\ ~ HasThought(thoughts, thoughts[i].branchFromThought)
     THEN {"branch_source"} ELSE {})

\* Phase 4: the mean similarity of consecutive thoughts (in submission
\* order), for batches of three or more.
BurstSimilarities(thoughts) ==
  [ i \in 1..(Len(thoughts) - 1) |->
      calculateJaccardSimilarity(thoughts[i + 1].thought, thoughts[i].thought) ]

\* total / n > pct / 100
FracMeanGtPct(total, n, pct) == total.num * 100 > pct * n * total.den
FracMeanLtPct(total, n, pct) == total.num * 100 < pct * n * total.den

BurstStagnationErrors(thoughts) ==
  IF Len(thoughts) < BURST_STAGNATION_MIN_SIZE THEN {}
  ELSE IF FracMeanGtPct(FracSum(BurstSimilarities(thoughts), Len(thoughts) - 1),
                        Len(thoughts) - 1, BURST_MAX_STAGNATION_PCT)
         THEN {"stagnation"} ELSE {}

\* Phase 5: the two non-blocking warnings.
BurstEntropies(thoughts) ==
  [ i \in DOMAIN thoughts |-> calculateWordEntropy(thoughts[i].thought) ]

BurstConfidences(thoughts) ==
  [ i \in DOMAIN thoughts |-> [num |-> thoughts[i].confidence, den |-> 1] ]

BurstWithConfidence(thoughts) == { i \in DOMAIN thoughts : thoughts[i].confidence # 0 }

BurstMetricWarnings(thoughts) ==
      (IF /\ FracMeanLtPct(FracSum(BurstEntropies(thoughts), Len(thoughts)),
                           Len(thoughts), BURST_MIN_AVG_ENTROPY_PCT)
          /\ Len(thoughts) >= BURST_ENTROPY_MIN_SIZE
         THEN {"low_diversity"} ELSE {})
      \cup
      (IF /\ BurstWithConfidence(thoughts) # {}
          /\ FracSum(BurstConfidences(thoughts), Len(thoughts)).num
               < BURST_MIN_AVG_CONFIDENCE * Cardinality(BurstWithConfidence(thoughts))
         THEN {"low_confidence"} ELSE {})
      \cup
      (IF \E i \in DOMAIN thoughts : Len(thoughts[i].thought) > BURST_MAX_THOUGHT_LENGTH
         THEN {"truncated"} ELSE {})

\* Array.prototype.find over a batch.
BurstFind(thoughts, n) ==
  thoughts[CHOOSE i \in DOMAIN thoughts :
             /\ thoughts[i].thoughtNumber = n
             /\ \A j \in 1..(i - 1) : thoughts[j].thoughtNumber # n]

\* new Map(thoughts.map(t => [t.thoughtNumber, t])).get(n): the last wins.
BurstMapGet(thoughts, n) ==
  thoughts[CHOOSE i \in DOMAIN thoughts :
             /\ thoughts[i].thoughtNumber = n
             /\ \A j \in (i + 1)..Len(thoughts) : thoughts[j].thoughtNumber # n]

\* Is the step path[i-1] -> path[i] a gap for validateConsolidation?
BurstValidPredecessors(current, t) ==
  {current - 1}
    \cup (IF t.branchFromThought # 0 THEN {t.branchFromThought} ELSE {})
    \cup (IF t.isRevision /\ t.revisesThought # 0
            THEN {t.revisesThought, t.revisesThought - 1} ELSE {})

BurstPathGapAt(path, thoughts, i) ==
  path[i - 1] \notin BurstValidPredecessors(path[i], BurstMapGet(thoughts, path[i]))

\* validateConsolidation: the errors and the warnings it pushes.
BurstInvalidRefs(path, thoughts) ==
  { i \in DOMAIN path : ~ HasThought(thoughts, path[i]) }

BurstHasBlocker(t) ==
  \E e \in DOMAIN t.extensions : t.extensions[e].impact = "blocker"

BurstBlocked(consolidation, thoughts) ==
  { i \in DOMAIN consolidation.winningPath :
      /\ consolidation.verdict = "ready"
      /\ HasThought(thoughts, consolidation.winningPath[i])
      /\ BurstHasBlocker(BurstFind(thoughts, consolidation.winningPath[i]))
      /\ ~ \E j \in DOMAIN thoughts :
             /\ thoughts[j].isRevision
             /\ thoughts[j].revisesThought = consolidation.winningPath[i] }

BurstGaps(path, thoughts) ==
  IF Len(path) > 1 /\ BurstInvalidRefs(path, thoughts) = {}
    THEN { i \in 2..Len(path) : BurstPathGapAt(path, thoughts, i) }
    ELSE {}

\* A validateConsolidation that pushes the path gaps to the errors.
validateConsolidationStrict(consolidation, thoughts) ==
  [ errors   |-> (IF BurstInvalidRefs(consolidation.winningPath, thoughts) # {}
                    THEN {"invalid_path"} ELSE {})
                   \cup (IF BurstBlocked(consolidation, thoughts) # {}
                           THEN {"unresolved_blocker"} ELSE {})
                   \cup (IF BurstGaps(consolidation.winningPath, thoughts) # {}
                           THEN {"path_gaps"} ELSE {}),
    warnings |-> {} ]

validateConsolidation(consolidation, thoughts) ==
  [ errors   |-> (IF BurstInvalidRefs(consolidation.winningPath, thoughts) # {}
                    THEN {"invalid_path"} ELSE {})
                   \cup (IF BurstBlocked(consolidation, thoughts) # {}
                           THEN {"unresolved_blocker"} ELSE {}),
    warnings |-> IF BurstGaps(consolidation.winningPath, thoughts) # {}
                   THEN {"path_gaps"} ELSE {} ]

\* Phase 1: goal and size.
BurstBasicErrors(goal, thoughts) ==
  (IF TrimmedLength(goal) < BURST_MIN_GOAL_LENGTH THEN {"goal"} ELSE {})
    \cup (IF Len(thoughts) = 0 THEN {"no_thoughts"} ELSE {})
    \cup (IF Len(thoughts) > BURST_MAX_THOUGHTS THEN {"too_many"} ELSE {})

\* Phase 6 (`if (consolidation)`).
BurstConsolidationFindings(consolidation, thoughts) ==
  IF consolidation = NoConsolidation THEN [errors |-> {}, warnings |-> {}]
  ELSE validateConsolidation(consolidation, thoughts)

\* The return value of validate after phase 1.
BurstVerdict(errors, warnings, thoughts) ==
  [ passed   |-> errors = {},
    errors   |-> errors,
    warnings |-> warnings,
    sortedThoughts |-> IF errors = {} THEN SortByNumber(thoughts) ELSE << >> ]

BurstFindings(thoughts, cons) ==
  BurstVerdict(BurstSequenceErrors(thoughts) \cup BurstContentErrors(thoughts)
                 \cup BurstStagnationErrors(thoughts) \cup cons.errors,
               BurstMetricWarnings(thoughts) \cup cons.warnings,
               thoughts)

\* BurstService.validate: errors and warnings by kind, and the sorted
\* thoughts when it passed.
BurstValidate(goal, thoughts, consolidation) ==
  IF BurstBasicErrors(goal, thoughts) # {}
    THEN [ passed |-> FALSE, errors |-> BurstBasicErrors(goal, thoughts),
           warnings |-> {}, sortedThoughts |-> << >> ]
    ELSE BurstFindings(thoughts, BurstConsolidationFindings(consolidation, thoughts))

\* String.prototype.substring(0, n)
Substring0(s, n) == IF Len(s) > n THEN SubSeq(s, 1, n) ELSE s

\* toThoughtRecord
toThoughtRecord(t, sessionId) ==
  [ thought           |-> Substring0(t.thought, BURST_MAX_THOUGHT_LENGTH),
    thoughtNumber     |-> t.thoughtNumber,
    isRevision        |-> t.isRevision,
    revisesThought    |-> t.revisesThought,
    branchFromThought |-> t.branchFromThought,
    branchId          |-> t.branchId,
    confidence        |-> t.confidence,
    sessionId         |-> sessionId,
    extensions        |-> [ e \in DOMAIN t.extensions |->
                              [ type    |-> t.extensions[e].type,
                                content |-> t.extensions[e].content,
                                impact  |-> IF t.extensions[e].impact = "none"
                                              THEN "medium"
                                              ELSE t.extensions[e].impact ] ] ]

\* One turn of the commit loop: the record is pushed, lastThoughtNumber
\* raised and the branch extended.
CommitRecord(st, t, record) ==
  [ st EXCEPT
      !.thoughtHistory = Append(@, record),
      !.lastThoughtNumber = Max(@, t.thoughtNumber),
      !.branches =
        IF t.branchFromThought # 0 /\ t.branchId # ""
          THEN BranchSet(@, t.branchId, Append(BranchGet(@, t.branchId), record))
          ELSE @ ]

\* The commit loop of submitSession over the sorted thoughts from position i.
RECURSIVE CommitFrom(_, _, _)
CommitFrom(st, sorted, i) ==
  IF i > Len(sorted) THEN st
  ELSE CommitFrom(CommitRecord(st, sorted[i],
                               toThoughtRecord(sorted[i], st.currentSessionId)),
                  sorted, i + 1)

\* A submitSession that commits on top of what the store holds.
CommitStartKeeping(st, goal, now) ==
  [ st EXCEPT !.currentSessionId = now, !.sessionGoal = goal ]

\* The state submitSession commits from: it assigns the new session id and
\* the goal and then calls reset(), which clears both again.
CommitStart(st, goal, now) ==
  Reset([ st EXCEPT !.currentSessionId = now, !.sessionGoal = goal ])

\* A submitSession that commits whatever validation found.
IsNeverBurstRejected(validation) == FALSE

\* Did validation stop the submission?  (`!validation.passed ||
\* !validation.sortedThoughts`)
IsBurstRejected(validation) == ~ validation.passed

BurstRejection(st, validation) ==
  [ store  |-> st,
    calls  |-> << >>,
    result |-> [ op |-> "submitSession", status |-> "rejected",
                 errors |-> validation.errors, warnings |-> validation.warnings,
                 sessionId |-> 0, thoughtsProcessed |-> 0 ] ]

BurstAcceptance(committed, validation, input) ==
  [ store  |-> committed,
    calls  |-> << "save" >>,
    result |-> [ op |-> "submitSession", status |-> "accepted",
                 errors |-> {}, warnings |-> validation.warnings,
                 sessionId |-> committed.currentSessionId,
                 thoughtsProcessed |-> Len(input.thoughts) ] ]

BurstOutcome(st, input, now, validation) ==
  IF IsBurstRejected(validation) THEN BurstRejection(st, validation)
  ELSE BurstAcceptance(CommitFrom(CommitStart(st, input.goal, now),
                                  validation.sortedThoughts, 1),
                       validation, input)

\* submitSession(input) on store st: the store after the call, the
\* persistence calls and the result.
submitSession(st, input, now) ==
  BurstOutcome(st, input, now,
               BurstValidate(input.goal, input.thoughts, input.consolidation))

(***************************************************************************)
(* Dead ends: consolidate and recordDeadEnd                                *)
(*                                                                         *)
(* A DeadEnd keeps its path and its session id; the reason and the         *)
(* timestamp are not read by the engine.  consolidate changes the store    *)
(* through recordDeadEnd only; its path analysis feeds the result.         *)
(***************************************************************************)

MAX_DEAD_ENDS == 20

\* A check that finds no path recorded.
DeadEndExistsNever(list, path) == FALSE

\* `this.deadEnds.some(de => de.path.join(',') === pathKey)`: the keys of two
\* paths are equal when the paths are.
DeadEndExists(list, path) == \E i \in DOMAIN list : list[i].path = path

\* A full list that drops its newest entry.
DropNewest(list) ==
  IF Len(list) >= MAX_DEAD_ENDS THEN SubSeq(list, 1, Len(list) - 1)
  ELSE list

\* `if (this.deadEnds.length >= MAX_DEAD_ENDS) this.deadEnds.shift()`
DropOldest(list) ==
  IF Len(list) >= MAX_DEAD_ENDS THEN Tail(list) ELSE list

\* recordDeadEnd: an empty path and a path already recorded are skipped;
\* the oldest dead end is dropped at the limit; a save is requested.
recordDeadEnd(st, path) ==
  IF path = << >> \/ DeadEndExists(st.deadEnds, path)
    THEN [ store |-> st, calls |-> << >> ]
    ELSE [ store |-> [ st EXCEPT !.deadEnds =
                         Append(DropOldest(@),
                                [ path |-> path, sessionId |-> st.currentSessionId ]) ],
           calls |-> << "save" >> ]

\* winningPath.includes(n)
PathIncludes(winningPath, n) == \E p \in DOMAIN winningPath : winningPath[p] = n

\* thought.extensions.some(e => impacts has e.impact && types has e.type)
HasExtensionOf(thought, impacts, types) ==
  \E e \in DOMAIN thought.extensions :
    thought.extensions[e].impact \in impacts /\ thought.extensions[e].type \in types

ExtensionTypes == { "critique", "elaboration", "correction", "alternative_scenario",
                    "assumption_testing", "innovation", "optimization", "polish" }

\* sessionThoughts.some(t => t.isRevision && t.revisesThought === n)
HasRevisionOf(sessionThoughts, n) ==
  \E j \in DOMAIN sessionThoughts :
    sessionThoughts[j].isRevision /\ sessionThoughts[j].revisesThought = n

\* sessionThoughts.find(t => t.isRevision && t.revisesThought === n), which
\* the caller has checked to exist.
FirstRevisionOf(sessionThoughts, n) ==
  sessionThoughts[CHOOSE j \in DOMAIN sessionThoughts :
                    /\ sessionThoughts[j].isRevision
                    /\ sessionThoughts[j].revisesThought = n
                    /\ \A k \in 1..(j - 1) :
                         ~ (sessionThoughts[k].isRevision
                            /\ sessionThoughts[k].revisesThought = n)]

\* A revision of a blocked thought that is never found.
UnaddressedNever(winningPath, sessionThoughts, impacts, types) == {}

\* The thoughts of the path with an extension of these impacts and types and
\* no revision in the session (unaddressedBlockers, unaddressedCritical).
Unaddressed(winningPath, sessionThoughts, impacts, types) ==
  { sessionThoughts[i].thoughtNumber : i \in
      { i \in DOMAIN sessionThoughts :
          /\ PathIncludes(winningPath, sessionThoughts[i].thoughtNumber)
          /\ HasExtensionOf(sessionThoughts[i], impacts, types)
          /\ ~ HasRevisionOf(sessionThoughts, sessionThoughts[i].thoughtNumber) } }

\* missingRevisions: the thoughts of the path with a high or blocker critique
\* whose first revision is not in the path.
MissingRevisions(winningPath, sessionThoughts) ==
  { sessionThoughts[i].thoughtNumber : i \in
      { i \in DOMAIN sessionThoughts :
          /\ PathIncludes(winningPath, sessionThoughts[i].thoughtNumber)
          /\ HasExtensionOf(sessionThoughts[i], { "high", "blocker" }, { "critique" })
          /\ HasRevisionOf(sessionThoughts, sessionThoughts[i].thoughtNumber)
          /\ ~ PathIncludes(winningPath,
                 FirstRevisionOf(sessionThoughts,
                                 sessionThoughts[i].thoughtNumber).thoughtNumber) } }

\* lowConfidenceInPath (confidence 0 stands for undefined)
LowConfidenceInPath(winningPath, sessionThoughts) ==
  { sessionThoughts[i].thoughtNumber : i \in
      { i \in DOMAIN sessionThoughts :
          /\ PathIncludes(winningPath, sessionThoughts[i].thoughtNumber)
          /\ sessionThoughts[i].confidence # 0
          /\ sessionThoughts[i].confidence < 5 } }

\* `1 - winningPath.length / sessionThoughts.length > 0.6` for a session of n
\* thoughts and a path of p: (n - p) / n > 3 / 5.
HighDiscard(p, n) == 2 * n > 5 * p

\* The warnings of one audit, by kind; the code pushes at most one of each.
ConsolidateWarnings(winningPath, sessionThoughts) ==
  (IF validatePathConnectivity(winningPath, sessionThoughts).valid
     THEN {} ELSE { "PATH DISCONTINUITY" })
  \cup (IF LowConfidenceInPath(winningPath, sessionThoughts) = {}
          THEN {} ELSE { "LOW CONFIDENCE" })
  \cup (IF HighDiscard(Len(winningPath), Len(sessionThoughts))
          THEN { "HIGH DISCARD RATE" } ELSE {})
  \cup (IF Unaddressed(winningPath, sessionThoughts, { "blocker" }, ExtensionTypes) = {}
          THEN {} ELSE { "UNADDRESSED BLOCKERS" })
  \cup (IF Unaddressed(winningPath, sessionThoughts, { "high" }, { "critique" }) = {}
          THEN {} ELSE { "UNADDRESSED CRITICAL" })
  \cup (IF MissingRevisions(winningPath, sessionThoughts) = {}
          THEN {} ELSE { "MISSING REVISIONS IN PATH" })
  \cup (IF winningPath = << >> THEN { "EMPTY PATH" }
        ELSE IF Len(winningPath) < 2 /\ Len(sessionThoughts) > 3
          THEN { "SUSPICIOUSLY SHORT PATH" } ELSE {})

\* The warnings that forbid the final answer whatever their number.
ConsolidateBlocking ==
  { "UNADDRESSED BLOCKERS", "UNADDRESSED CRITICAL", "MISSING REVISIONS IN PATH",
    "PATH DISCONTINUITY" }

MAX_WARNINGS_TO_PROCEED == 1

canProceed(verdict, warnings) ==
  /\ verdict = "ready"
  /\ warnings \cap ConsolidateBlocking = {}
  /\ Cardinality(warnings) <= MAX_WARNINGS_TO_PROCEED

\* The fields of a ConsolidateResult the claims read; invalidRefs are the
\* numbers its error message lists.
ConsolidateResult(status, proceed, warnings, invalidRefs) ==
  [ op |-> "consolidate", status |-> status, canProceedToFinalAnswer |-> proceed,
    warnings |-> warnings, invalidRefs |-> invalidRefs ]

\* A path whose every member is taken to exist.
InvalidRefsNone(winningPath, sessionThoughts) == {}

\* invalidRefs: the members of the path that number no thought of the session.
InvalidRefs(winningPath, sessionThoughts) ==
  { winningPath[i] : i \in
      { i \in DOMAIN winningPath : ~ HasThought(sessionThoughts, winningPath[i]) } }

\* The audit once the path is known to name thoughts of the session: the
\* final answer is allowed, or a needs_more_work path is recorded as a dead
\* end, or the synthesis is rejected.
ConsolidateAudited(st, input, warnings) ==
  IF ~ canProceed(input.verdict, warnings) /\ input.verdict = "needs_more_work"
    THEN [ store  |-> recordDeadEnd(st, input.winningPath).store,
           calls  |-> recordDeadEnd(st, input.winningPath).calls,
           result |-> ConsolidateResult("success", FALSE, warnings, {}) ]
  ELSE [ store  |-> st, calls |-> << >>,
         result |-> ConsolidateResult("success", canProceed(input.verdict, warnings),
                                      warnings, {}) ]

\* ConsolidateService.consolidate: an empty session and a path that names a
\* thought the session does not hold are errors.
ConsolidateOutcome(st, input, sessionThoughts) ==
  IF sessionThoughts = << >>
    THEN [ store |-> st, calls |-> << >>,
           result |-> ConsolidateResult("error", FALSE, {}, {}) ]
  ELSE IF InvalidRefs(input.winningPath, sessionThoughts) # {}
    THEN [ store |-> st, calls |-> << >>,
           result |-> ConsolidateResult("error", FALSE, {},
                        InvalidRefs(input.winningPath, sessionThoughts)) ]
  ELSE ConsolidateAudited(st, input,
                          ConsolidateWarnings(input.winningPath, sessionThoughts))

consolidate(st, input) == ConsolidateOutcome(st, input, getCurrentSessionThoughts(st))

\* The last position of thoughtHistory that holds a thought numbered n, 0 when
\* there is none.
LastIndexOfNumber(h, n) ==
  IF \E i \in DOMAIN h : h[i].thoughtNumber = n
    THEN CHOOSE i \in DOMAIN h :
           h[i].thoughtNumber = n /\ \A j \in DOMAIN h : h[j].thoughtNumber = n => j <= i
    ELSE 0

\* A sequence with the last element equal to old replaced by new.
ReplaceLastEqual(seq, old, new) ==
  IF \E i \in DOMAIN seq : seq[i] = old
    THEN [ seq EXCEPT ![CHOOSE i \in DOMAIN seq :
                          seq[i] = old /\ \A j \in DOMAIN seq : seq[j] = old => j <= i] = new ]
    ELSE seq

\* The push of an extension on the record at position i, the same object in
\* thoughtHistory and, when it was pushed there, in its branch.
WithExtensionAt(st, i, rec) ==
  [ st EXCEPT
      !.thoughtHistory = [ @ EXCEPT ![i] = rec ],
      !.branches = IF st.thoughtHistory[i].branchId \in DOMAIN @
                     THEN BranchSet(@, st.thoughtHistory[i].branchId,
                                    ReplaceLastEqual(@[st.thoughtHistory[i].branchId],
                                                     st.thoughtHistory[i], rec))
                     ELSE @ ]

ExtendResult(status) == [ op |-> "extendThought", status |-> status ]

ExtendAt(st, input, targetIndex) ==
  IF targetIndex = 0 \/ targetIndex < getCurrentSessionStartIndex(st)
    THEN [ store |-> st, calls |-> << >>, result |-> ExtendResult("error") ]
  ELSE [ store  |-> WithExtensionAt(st, targetIndex,
                      [ st.thoughtHistory[targetIndex] EXCEPT
                          !.extensions = Append(@, [ type    |-> input.extensionType,
                                                     content |-> input.content,
                                                     impact  |-> input.impactOnFinalResult ]) ]),
         calls  |-> << >>,
         result |-> ExtendResult("success") ]

\* extendThought: the extension goes on the most recent thought with the
\* target number, which must belong to the current session.
extendThought(st, input) ==
  ExtendAt(st, input, LastIndexOfNumber(st.thoughtHistory, input.targetThoughtNumber))

(***************************************************************************)
(* Persistence: withFsLock, saveSession, clearSession                      *)
(*                                                                         *)
(* fsLock is the promise stored in this.fsLock: 0 when it is resolved,     *)
(* else the id of the pending operation that will resolve it.  A pending   *)
(* operation holds the promise it awaits (waitsFor, 0 once resolved), its  *)
(* position (pc) and, for a save, the serialized data.                     *)
(***************************************************************************)

VARIABLES
  fsQueue,      \* the pending withFsLock calls, oldest first
  fsLock,       \* this.fsLock
  files,        \* the two files of the session directory, by name
  alive,        \* is the process running?
  heldLog,      \* history variable: the successive values of the store
  durable       \* history variable: what the last finished save or clear left

fsVars == << fsQueue, fsLock, files, alive >>

\* The caches derived from the texts of the session.  The word cache only
\* memoizes: getWordSet(text) returns the token set of text whether it was
\* cached or not, so the handlers are modelled with WordSetOf, and the
\* content of the cache is followed where getWordSet is called with any
\* sequence of strings (SpecCache).
VARIABLES
  fuseIndex,        \* RecallService.fuseIndex: the thoughts it was built from
  fuseIndexDirty,   \* RecallService.fuseIndexDirty
  wordCache         \* the keys of wordCache (text-analysis.ts), oldest first

cacheVars == << fuseIndex, fuseIndexDirty, wordCache >>

vars == << thoughtHistory, branches, lastThoughtNumber, sessionGoal,
           currentSessionId, deadEnds, clock, result,
           fsQueue, fsLock, files, alive, heldLog, durable,
           fuseIndex, fuseIndexDirty, wordCache >>

\* `private fuseIndex: Fuse<FuseSearchItem> | null = null`
NoIndex == [ built |-> FALSE, thoughts |-> << >> ]

SESSION_FILE == "thought_session.json"
TEMP_FILE    == "thought_session.json.tmp"
FileNames    == { SESSION_FILE, TEMP_FILE }

NoFile      == [kind |-> "absent"]
PartialFile == [kind |-> "partial"]
\* A completely written file: the serialization of the store value content,
\* the version-th value the store held.
FullFile(content, version) == [kind |-> "full", content |-> content, version |-> version]

\* A saveSession that writes the session file in place.
InPlaceTarget == SESSION_FILE

\* The file saveSession writes before it renames it to SESSION_FILE.
SaveTarget == TEMP_FILE

\* An id for a new pending operation: the least one no pending operation has.
FreshId(queue) ==
  CHOOSE n \in 1..(Len(queue) + 1) : \A i \in DOMAIN queue : queue[i].id # n

\* A withFsLock that awaits an already resolved promise.
ResolvedLock(lock) == 0

\* The promise a new withFsLock call awaits: the current this.fsLock.
AwaitedLock(lock) == lock

\* A withFsLock that does not store its own promise in this.fsLock.
withFsLockUnchained(fs, kind) ==
  [ queue |-> Append(fs.queue,
                     [ id |-> Len(fs.queue) + 1, kind |-> kind, waitsFor |-> fs.lock,
                       pc |-> "waiting", data |-> NoFile ]),
    lock  |-> fs.lock ]

\* withFsLock up to its first await: the call captures this.fsLock, replaces
\* it by its own promise and waits.
withFsLock(fs, kind) ==
  LET id == FreshId(fs.queue)
  IN  [ queue |-> Append(fs.queue,
                         [ id |-> id, kind |-> kind, waitsFor |-> AwaitedLock(fs.lock),
                           pc |-> "waiting", data |-> NoFile ]),
        lock  |-> id ]

\* The persistence calls of one handler, in order.
RECURSIVE Enqueue(_, _)
Enqueue(fs, calls) ==
  IF calls = << >> THEN fs
  ELSE Enqueue(withFsLock(fs, Head(calls)), Tail(calls))

Remove(queue, i) == SubSeq(queue, 1, i - 1) \o SubSeq(queue, i + 1, Len(queue))

\* releaseLock() of operation i, which then is over: its promise resolves
\* for every operation that awaits it.
Released(queue, i) ==
  LET id   == queue[i].id
      rest == Remove(queue, i)
  IN  [ k \in DOMAIN rest |->
          IF rest[k].waitsFor = id THEN [ rest[k] EXCEPT !.waitsFor = 0 ] ELSE rest[k] ]

ReleaseLock(i) ==
  /\ fsQueue' = Released(fsQueue, i)
  /\ fsLock' = IF fsLock = fsQueue[i].id THEN 0 ELSE fsLock

\* The operations between their `await currentLock` and their releaseLock();
\* a pending loadSession is not a withFsLock call.
InCriticalSection ==
  { i \in DOMAIN fsQueue : fsQueue[i].kind # "load" /\ fsQueue[i].pc # "waiting" }

ioResult == [op |-> "io"]

\* `await currentLock` returns: the operation starts.  A save serializes the
\* store as it is now and calls writeFile; a clear calls unlink.
FsBegin(i) ==
  /\ alive
  /\ fsQueue[i].pc = "waiting"
  /\ fsQueue[i].waitsFor = 0
  /\ fsQueue' = [ fsQueue EXCEPT ![i] =
                    IF @.kind = "save"
                      THEN [ @ EXCEPT !.pc = "write",
                                      !.data = FullFile(Store, Len(heldLog)) ]
                      ELSE [ @ EXCEPT !.pc = "unlink" ] ]
  /\ result' = ioResult
  /\ UNCHANGED << storeVars, clock, cacheVars, fsLock, files, alive, heldLog, durable >>

\* writeFile opens and truncates its target.
FsWriteOpen(i) ==
  /\ alive
  /\ fsQueue[i].pc = "write"
  /\ files' = [ files EXCEPT ![SaveTarget] = PartialFile ]
  /\ fsQueue' = [ fsQueue EXCEPT ![i].pc = "writing" ]
  /\ result' = ioResult
  /\ UNCHANGED << storeVars, clock, cacheVars, fsLock, alive, heldLog, durable >>

\* writeFile completes; saveSession calls rename.
FsWriteDone(i) ==
  /\ alive
  /\ fsQueue[i].pc = "writing"
  /\ files' = [ files EXCEPT ![SaveTarget] = fsQueue[i].data ]
  /\ fsQueue' = [ fsQueue EXCEPT ![i].pc = "rename" ]
  /\ result' = ioResult
  /\ UNCHANGED << storeVars, clock, cacheVars, fsLock, alive, heldLog, durable >>

\* rename(target, SESSION_FILE) completes and withFsLock releases the lock.
FsRename(i) ==
  /\ alive
  /\ fsQueue[i].pc = "rename"
  /\ files' = IF SaveTarget = SESSION_FILE THEN files
              ELSE [ files EXCEPT ![SESSION_FILE] = files[SaveTarget],
                                  ![SaveTarget] = NoFile ]
  /\ durable' = fsQueue[i].data
  /\ ReleaseLock(i)
  /\ result' = ioResult
  /\ UNCHANGED << storeVars, clock, cacheVars, alive, heldLog >>

\* A failure of writeFile or rename that nothing catches: the process ends.
FsSaveFailUncaught(i) ==
  /\ alive
  /\ fsQueue[i].pc \in { "write", "writing", "rename" }
  /\ alive' = FALSE
  /\ fsQueue' = << >>
  /\ fsLock' = 0
  /\ thoughtHistory' = << >>
  /\ branches' = << >>
  /\ lastThoughtNumber' = 0
  /\ sessionGoal' = ""
  /\ currentSessionId' = 0
  /\ deadEnds' = << >>
  /\ result' = ioResult
  /\ fuseIndex' = NoIndex
  /\ fuseIndexDirty' = TRUE
  /\ wordCache' = << >>
  /\ UNCHANGED << clock, files, heldLog, durable >>

\* writeFile or rename fails: the catch block runs.
FsSaveFail(i) ==
  /\ alive
  /\ fsQueue[i].pc \in { "write", "writing", "rename" }
  /\ fsQueue' = [ fsQueue EXCEPT ![i].pc = "cleanup" ]
  /\ result' = ioResult
  /\ UNCHANGED << storeVars, clock, cacheVars, fsLock, files, alive, heldLog, durable >>

\* A catch block that ends without the release of the lock.
FsCleanupHolding(i) ==
  /\ alive
  /\ fsQueue[i].pc = "cleanup"
  /\ files' = [ files EXCEPT ![TEMP_FILE] = NoFile ]
  /\ fsQueue' = [ fsQueue EXCEPT ![i].pc = "failed" ]
  /\ result' = ioResult
  /\ UNCHANGED << storeVars, clock, cacheVars, fsLock, alive, heldLog, durable >>

\* The catch block's unlink of the temp file, whose own failure is ignored;
\* withFsLock releases the lock.
FsCleanup(i) ==
  /\ alive
  /\ fsQueue[i].pc = "cleanup"
  /\ \/ files' = [ files EXCEPT ![TEMP_FILE] = NoFile ]
     \/ files' = files
  /\ ReleaseLock(i)
  /\ result' = ioResult
  /\ UNCHANGED << storeVars, clock, cacheVars, alive, heldLog, durable >>

\* clearSession's unlink succeeds or fails (ignored); the lock is released.
FsUnlink(i) ==
  /\ alive
  /\ fsQueue[i].pc = "unlink"
  /\ \/ /\ files' = [ files EXCEPT ![SESSION_FILE] = NoFile ]
        /\ durable' = NoFile
     \/ UNCHANGED << files, durable >>
  /\ ReleaseLock(i)
  /\ result' = ioResult
  /\ UNCHANGED << storeVars, clock, cacheVars, alive, heldLog >>

\* The process dies: its memory and its pending operations are gone, the
\* files stay as they are.
Crash ==
  /\ alive
  /\ alive' = FALSE
  /\ fsQueue' = << >>
  /\ fsLock' = 0
  /\ thoughtHistory' = << >>
  /\ branches' = << >>
  /\ lastThoughtNumber' = 0
  /\ sessionGoal' = ""
  /\ currentSessionId' = 0
  /\ deadEnds' = << >>
  /\ result' = [op |-> "crash"]
  /\ fuseIndex' = NoIndex
  /\ fuseIndexDirty' = TRUE
  /\ wordCache' = << >>
  /\ UNCHANGED << clock, files, heldLog, durable >>

(***************************************************************************)
(* loadSession                                                             *)
(*                                                                         *)
(* A pending loadSession is kept in fsQueue with the kind "load": it waits *)
(* for no promise and leaves this.fsLock alone.  Its positions are "stat"  *)
(* (fs.stat called), "read" (fs.readFile called) and "clearing" (awaiting  *)
(* the clearSession it called, whose id is in data); once fs.stat has      *)
(* returned, data holds the age of the file it reported.                   *)
(***************************************************************************)

SESSION_TTL_HOURS == 24
MS_PER_HOUR == 3600000

\* A TTL check that finds no file expired.
IsExpiredNever(ageMs) == FALSE

\* `hoursOld > SESSION_TTL_HOURS` for a file modified ageMs milliseconds ago
IsExpired(ageMs) == ageMs > SESSION_TTL_HOURS * MS_PER_HOUR

\* The object saveSession serializes: the branches are the entries of the Map.
SessionData(st) ==
  [ history           |-> st.thoughtHistory,
    branches          |-> { << k, st.branches[k] >> : k \in DOMAIN st.branches },
    lastThoughtNumber |-> st.lastThoughtNumber,
    goal              |-> st.sessionGoal,
    currentSessionId  |-> st.currentSessionId,
    deadEnds          |-> st.deadEnds ]

\* new Map(entries)
MapOf(entries) ==
  [ k \in { e[1] : e \in entries } |-> (CHOOSE e \in entries : e[1] = k)[2] ]

\* A restoration that leaves the dead ends out.
RestoredStoreWithoutDeadEnds(data) ==
  [ thoughtHistory    |-> data.history,
    branches          |-> MapOf(data.branches),
    lastThoughtNumber |-> data.lastThoughtNumber,
    sessionGoal       |-> data.goal,
    currentSessionId  |-> data.currentSessionId,
    deadEnds          |-> << >> ]

\* The fields loadSession assigns from the parsed data.
RestoredStore(data) ==
  [ thoughtHistory    |-> data.history,
    branches          |-> MapOf(data.branches),
    lastThoughtNumber |-> data.lastThoughtNumber,
    sessionGoal       |-> data.goal,
    currentSessionId  |-> data.currentSessionId,
    deadEnds          |-> data.deadEnds ]

LoadResult(restored) == [ op |-> "loadSession", restored |-> restored ]

\* loadSession() up to its first await: fs.stat is called.
FsLoadCall ==
  /\ alive
  /\ fsQueue' = Append(fsQueue, [ id |-> FreshId(fsQueue), kind |-> "load", waitsFor |-> 0,
                                  pc |-> "stat", data |-> NoFile ])
  /\ result' = [ op |-> "loadSession.call" ]
  /\ UNCHANGED << storeVars, clock, cacheVars, fsLock, files, alive, heldLog, durable >>

\* loadSession returns false: the store is as it was.
FsLoadReturnsFalse(i) ==
  /\ fsQueue' = Remove(fsQueue, i)
  /\ result' = LoadResult(FALSE)
  /\ UNCHANGED << storeVars, clock, cacheVars, fsLock, files, alive, heldLog, durable >>

\* The clearSession() of a load that found its file expired: the load waits
\* for it.
FsLoadClears(i, ageMs) ==
  LET fs == withFsLock([ queue |-> fsQueue, lock |-> fsLock ], "clear")
  IN  /\ fsQueue' = [ fs.queue EXCEPT ![i].pc = "clearing",
                                      ![i].data = [ kind |-> "stats", ageMs |-> ageMs,
                                                    id |-> fs.lock ] ]
      /\ fsLock' = fs.lock
      /\ result' = [ op |-> "loadSession.stat" ]
      /\ UNCHANGED << storeVars, clock, cacheVars, files, alive, heldLog, durable >>

\* fs.stat returns for a file modified ageMs milliseconds ago, or throws
\* because there is no file.
FsLoadStat(i, ageMs) ==
  /\ alive
  /\ fsQueue[i].kind = "load"
  /\ fsQueue[i].pc = "stat"
  /\ IF files[SESSION_FILE].kind = "absent" THEN FsLoadReturnsFalse(i)
     ELSE IF IsExpired(ageMs) THEN FsLoadClears(i, ageMs)
     ELSE /\ fsQueue' = [ fsQueue EXCEPT ![i].pc = "read",
                                         ![i].data = [ kind |-> "stats", ageMs |-> ageMs,
                                                       id |-> 0 ] ]
          /\ result' = [ op |-> "loadSession.stat" ]
          /\ UNCHANGED << storeVars, clock, cacheVars, fsLock, files, alive, heldLog, durable >>

\* The restoration: the store is what the parsed content says.
FsLoadRestore(i, st) ==
  /\ thoughtHistory' = st.thoughtHistory
  /\ branches' = st.branches
  /\ lastThoughtNumber' = st.lastThoughtNumber
  /\ sessionGoal' = st.sessionGoal
  /\ currentSessionId' = st.currentSessionId
  /\ deadEnds' = st.deadEnds
  /\ fsQueue' = Remove(fsQueue, i)
  /\ result' = LoadResult(TRUE)
  /\ UNCHANGED << clock, cacheVars, fsLock, files, alive, heldLog, durable >>

\* A session file that saveSession did not write: JSON whose history is the
\* array given (or no array: historyIsArray FALSE) and whose branches are an
\* array of values that are no [key, value] entries.
ForeignFile(historyIsArray, history) ==
  [ kind |-> "foreign", historyIsArray |-> historyIsArray, history |-> history ]

\* `this.thoughtHistory = data.history` has run when `new Map(data.branches)`
\* throws on a value that is no entry; the catch block returns false.
FsLoadMapThrows(i, history) ==
  /\ thoughtHistory' = history
  /\ fsQueue' = Remove(fsQueue, i)
  /\ result' = LoadResult(FALSE)
  /\ UNCHANGED << branches, lastThoughtNumber, sessionGoal, currentSessionId,
                  deadEnds, clock, cacheVars, fsLock, files, alive, heldLog, durable >>

\* fs.readFile returns: the content is parsed and restored; no file, a file
\* that does not parse or whose history is no array makes loadSession
\* return false before it assigns anything.
FsLoadRead(i) ==
  /\ alive
  /\ fsQueue[i].kind = "load"
  /\ fsQueue[i].pc = "read"
  /\ IF files[SESSION_FILE].kind = "full"
       THEN FsLoadRestore(i, RestoredStore(SessionData(files[SESSION_FILE].content)))
     ELSE IF files[SESSION_FILE].kind = "foreign" /\ files[SESSION_FILE].historyIsArray
       THEN FsLoadMapThrows(i, files[SESSION_FILE].history)
     ELSE FsLoadReturnsFalse(i)

\* fs.stat or fs.readFile fails: the catch block returns false.
FsLoadFail(i) ==
  /\ alive
  /\ fsQueue[i].kind = "load"
  /\ fsQueue[i].pc \in { "stat", "read" }
  /\ FsLoadReturnsFalse(i)

\* The awaited clearSession is over: loadSession returns false.
FsLoadCleared(i) ==
  /\ alive
  /\ fsQueue[i].kind = "load"
  /\ fsQueue[i].pc = "clearing"
  /\ \A j \in DOMAIN fsQueue : fsQueue[j].id # fsQueue[i].data.id
  /\ FsLoadReturnsFalse(i)

\* main(): a new process, whose first call is loadSession().
Start ==
  /\ ~ alive
  /\ alive' = TRUE
  /\ fsQueue' = << [ id |-> 1, kind |-> "load", waitsFor |-> 0, pc |-> "stat",
                     data |-> NoFile ] >>
  /\ result' = [ op |-> "start" ]
  /\ UNCHANGED << storeVars, clock, cacheVars, fsLock, files, heldLog, durable >>

(***************************************************************************)
(* The handlers as actions                                                 *)
(***************************************************************************)

\* Did the call reach `this.invalidateFuseIndex()`?  processThought does
\* when it stores the record, submitSession when it commits the batch.
InvalidatesIndex(res) ==
  \/ res.op = "processThought" /\ ~ res.isError
  \/ res.op = "submitSession" /\ res.status = "accepted"

\* The effect of one handler call: the store it leaves, the persistence
\* calls it queued and its result.  logging says whether the history
\* variable heldLog records the new value of the store.
Commit(out, logging) ==
  /\ thoughtHistory' = out.store.thoughtHistory
  /\ branches' = out.store.branches
  /\ lastThoughtNumber' = out.store.lastThoughtNumber
  /\ sessionGoal' = out.store.sessionGoal
  /\ currentSessionId' = out.store.currentSessionId
  /\ deadEnds' = out.store.deadEnds
  /\ LET fs == Enqueue([queue |-> fsQueue, lock |-> fsLock], out.calls)
     IN  fsQueue' = fs.queue /\ fsLock' = fs.lock
  /\ result' = out.result
  /\ heldLog' = IF logging /\ out.store # Store THEN Append(heldLog, out.store)
                ELSE heldLog
  /\ fuseIndexDirty' = (fuseIndexDirty \/ InvalidatesIndex(out.result))
  /\ UNCHANGED << clock, files, alive, durable, fuseIndex, wordCache >>

\* resetSession(): reset() and a queued clearSession().
resetSession(st) ==
  [ store  |-> Reset(st),
    calls  |-> << "clear" >>,
    result |-> [ op |-> "resetSession",
                 clearedThoughts |-> Len(st.thoughtHistory),
                 clearedBranches |-> Cardinality(DOMAIN st.branches) ] ]

ThoughtInput(n, text, isRevision, revises, from, branchId, confidence, goal) ==
  [ thought |-> text, thoughtNumber |-> n, isRevision |-> isRevision,
    revisesThought |-> revises, branchFromThought |-> from, branchId |-> branchId,
    confidence |-> confidence, goal |-> goal, quickExtension |-> NoExtension ]

BurstThought(n, text, isRevision, revises, from, branchId, confidence, extensions) ==
  [ thought |-> text, thoughtNumber |-> n, isRevision |-> isRevision,
    revisesThought |-> revises, branchFromThought |-> from, branchId |-> branchId,
    confidence |-> confidence, extensions |-> extensions ]

(***************************************************************************)
(* Bounds and input sets                                                   *)
(***************************************************************************)

MaxHistory       == 2   \* thoughts in the store
MaxThoughtNumber == 3   \* thoughtNumber of a single submission
MaxClock         == 2   \* readings of the clock
MaxPendingFs     == 2   \* the same, where persistence operations overlap
MaxVersions      == 4   \* successive values of the store that are recorded
MaxRun           == 4   \* thoughts in the store, where stagnation is detected
MaxPending       == 1   \* a handler runs with fewer pending persistence operations
MaxSession       == 3   \* thoughts in the store, where sessions begin and end
MaxBurst         == 3   \* thoughts of a batch
MaxPath          == 3   \* numbers in a winning path
MaxPathNumber    == 3   \* the numbers of a winning path and of its thoughts
MaxAudit         == 3   \* thoughts of an audited session
MaxAuditPath     == 2   \* numbers in an audited path, the whole chain apart
MaxExtensions    == 1   \* extensions in the store
MaxDeadEndPaths  == 21  \* paths given up on one session
MaxLoadHistory   == 2   \* thoughts of a saved and loaded session
MaxThoughtCount  == 120 \* history lengths given to getStagnationThreshold
MaxCacheTexts    == 52  \* different non-empty strings given to getWordSet

\* Single submissions: fresh thoughts (with or without a goal on number 1),
\* revisions (with or without a target) and branch continuations.
PlainInputs ==
  { ThoughtInput(n, t, FALSE, 0, 0, "", 0, G_NONE) :
      n \in 1..MaxThoughtNumber, t \in { T_BLANK, T_CACHE } }
  \cup { ThoughtInput(1, T_CACHE, FALSE, 0, 0, "", 0, G_GOAL) }

RevisionInputs ==
  { ThoughtInput(n, t, TRUE, r, 0, "", 0, G_NONE) :
      n \in 1..MaxThoughtNumber, t \in { T_CACHE, T_PARSE }, r \in 0..2 }

BranchInputs ==
  { ThoughtInput(n, T_PARSE, FALSE, 0, f, "b1", 0, G_NONE) :
      n \in 2..MaxThoughtNumber, f \in 1..2 }

StoreInputs == PlainInputs \cup RevisionInputs \cup BranchInputs

BlockerExt == << [type |-> "critique", content |-> "breaks", impact |-> "blocker"] >>

B1  == BurstThought(1, L_CACHE, FALSE, 0, 0, "", 0, << >>)
B1x == BurstThought(1, L_CACHE, FALSE, 0, 0, "", 0, BlockerExt)
B2  == BurstThought(2, L_MUTEX, FALSE, 0, 0, "", 0, << >>)
B2c == BurstThought(2, L_CACHE2, FALSE, 0, 0, "", 0, << >>)
B2s == BurstThought(2, T_CACHE, FALSE, 0, 0, "", 0, << >>)
B3  == BurstThought(3, L_GRAPH, FALSE, 0, 0, "", 0, << >>)
B3c == BurstThought(3, L_CACHE, FALSE, 0, 0, "", 0, << >>)
R2  == BurstThought(2, L_GRAPH, TRUE, 1, 0, "", 0, << >>)
R9  == BurstThought(2, L_GRAPH, TRUE, 3, 0, "", 0, << >>)

BurstInput(goal, thoughts, consolidation) ==
  [ goal |-> goal, thoughts |-> thoughts, consolidation |-> consolidation ]

Ready(path) == [winningPath |-> path, verdict |-> "ready"]

\* Batches: accepted ones (sorted or not, with a revision, with a
\* consolidation) and one for every kind of validation error.
StoreBatches ==
  { BurstInput(G_GOAL, << B1 >>, NoConsolidation),
    BurstInput(G_OTHER, << B2, B1 >>, NoConsolidation),
    BurstInput(G_GOAL, << B1, B2 >>, Ready(<< 1, 2 >>)),
    BurstInput(G_GOAL, << B1, R2 >>, NoConsolidation),
    BurstInput(G_SHORT, << B1 >>, NoConsolidation),
    BurstInput(G_GOAL, << >>, NoConsolidation),
    BurstInput(G_GOAL, << B2 >>, NoConsolidation),
    BurstInput(G_GOAL, << B1, B1 >>, NoConsolidation),
    BurstInput(G_GOAL, << B1, B2s >>, NoConsolidation),
    BurstInput(G_GOAL, << B1, R9 >>, NoConsolidation),
    BurstInput(G_GOAL, << B1, B2c, B3c >>, NoConsolidation),
    BurstInput(G_GOAL, << B1, B2 >>, Ready(<< 1, 3 >>)),
    BurstInput(G_GOAL, << B1x, B2 >>, Ready(<< 1, 2 >>)) }

(***************************************************************************)
(* Spec: the store under single submissions, batches and resets, with the  *)
(* persistence operations they queue (no I/O failure, no crash, one        *)
(* reading of the clock).                                                  *)
(***************************************************************************)

Init ==
  /\ thoughtHistory = << >>
  /\ branches = << >>
  /\ lastThoughtNumber = 0
  /\ sessionGoal = ""
  /\ currentSessionId = 0
  /\ deadEnds = << >>
  /\ clock = 1
  /\ result = [op |-> "init"]
  /\ fsQueue = << >>
  /\ fsLock = 0
  /\ files = [ f \in FileNames |-> NoFile ]
  /\ alive = TRUE
  /\ heldLog = << EmptyStore >>
  /\ durable = NoFile
  /\ fuseIndex = NoIndex
  /\ fuseIndexDirty = TRUE
  /\ wordCache = << >>

\* A handler may be called when what it leaves fits the bounds.
Fits(out, maxPending) ==
  /\ Len(out.store.thoughtHistory) <= MaxHistory
  /\ Len(fsQueue) < maxPending

ProcessThought ==
  \E input \in StoreInputs :
    /\ alive
    /\ Fits(processThought(Store, input, clock), MaxPending)
    /\ Commit(processThought(Store, input, clock), FALSE)

SubmitSession ==
  \E input \in StoreBatches :
    /\ alive
    /\ Fits(submitSession(Store, input, clock), MaxPending)
    /\ Commit(submitSession(Store, input, clock), FALSE)

ResetSession ==
  /\ alive
  /\ Fits(resetSession(Store), MaxPending)
  /\ Commit(resetSession(Store), FALSE)

Tick ==
  /\ clock < MaxClock
  /\ clock' = clock + 1
  /\ result' = [op |-> "tick"]
  /\ UNCHANGED << storeVars, fsVars, heldLog, durable, cacheVars >>

BeginOperation == \E i \in DOMAIN fsQueue : FsBegin(i)
WriteOpen      == \E i \in DOMAIN fsQueue : FsWriteOpen(i)
WriteDone      == \E i \in DOMAIN fsQueue : FsWriteDone(i)
Rename         == \E i \in DOMAIN fsQueue : FsRename(i)
SaveFail       == \E i \in DOMAIN fsQueue : FsSaveFail(i)
Cleanup        == \E i \in DOMAIN fsQueue : FsCleanup(i)
Unlink         == \E i \in DOMAIN fsQueue : FsUnlink(i)

Next ==
  \/ ProcessThought
  \/ SubmitSession
  \/ ResetSession
  \/ BeginOperation
  \/ WriteOpen
  \/ WriteDone
  \/ Rename
  \/ Unlink

Spec == Init /\ [][Next]_vars

(***************************************************************************)
(* SpecFs: persistence under overlapping calls, I/O failures, a crash and  *)
(* an advancing clock.  Every new value of the store is recorded.          *)
(***************************************************************************)

FsInputs ==
  { ThoughtInput(n, T_CACHE, FALSE, 0, 0, "", 0, G_NONE) : n \in 1..2 }

FitsFs(out) ==
  /\ Len(fsQueue) < MaxPendingFs
  /\ Len(heldLog) < MaxVersions

FsProcessThought ==
  \E input \in FsInputs :
    /\ alive
    /\ FitsFs(processThought(Store, input, clock))
    /\ Commit(processThought(Store, input, clock), TRUE)

FsResetSession ==
  /\ alive
  /\ FitsFs(resetSession(Store))
  /\ Commit(resetSession(Store), TRUE)

NextFs ==
  \/ FsProcessThought
  \/ FsResetSession
  \/ Tick
  \/ BeginOperation
  \/ WriteOpen
  \/ WriteDone
  \/ Rename
  \/ SaveFail
  \/ Cleanup
  \/ Unlink
  \/ Crash

SpecFs == Init /\ [][NextFs]_vars

(***************************************************************************)
(* SpecStagnation: runs of fresh thoughts long enough for the stagnation   *)
(* detector (three stored thoughts and a fourth), with repeated texts and  *)
(* low confidences.                                                        *)
(***************************************************************************)

RunInputs ==
  { ThoughtInput(n, tc[1], FALSE, 0, 0, "", tc[2], G_NONE) :
      n \in 1..MaxRun,
      tc \in { << T_CACHE, 0 >>, << T_CACHE, 3 >>, << T_REPEAT, 0 >> } }

RunThought ==
  \E input \in RunInputs :
    /\ alive
    /\ Len(processThought(Store, input, clock).store.thoughtHistory) <= MaxRun
    /\ Len(fsQueue) < MaxPending
    /\ Commit(processThought(Store, input, clock), FALSE)

NextStagnation ==
  \/ RunThought
  \/ BeginOperation
  \/ WriteOpen
  \/ WriteDone
  \/ Rename
  \/ Unlink

SpecStagnation == Init /\ [][NextStagnation]_vars

(***************************************************************************)
(* SpecSession: the life of a session.  Fresh thoughts (with a goal, with   *)
(* a text of stop words), branch continuations, revisions that repeat the  *)
(* text of their target, batches (one whose first thought branches from    *)
(* its second), dead ends recorded by consolidate, and resets.             *)
(***************************************************************************)

SessionInputs ==
  { ThoughtInput(1, T_CACHE, FALSE, 0, 0, "", 0, G_NONE),
    ThoughtInput(1, T_STOP, FALSE, 0, 0, "", 0, G_GOAL),
    ThoughtInput(2, T_CACHE, FALSE, 0, 0, "", 0, G_NONE),
    ThoughtInput(2, T_PARSE, FALSE, 0, 1, "b1", 0, G_NONE),
    ThoughtInput(3, T_PARSE, FALSE, 0, 2, "b1", 0, G_NONE),
    ThoughtInput(1, T_STOP, TRUE, 1, 0, "", 0, G_NONE),
    ThoughtInput(1, T_CACHE, TRUE, 1, 0, "", 0, G_NONE),
    ThoughtInput(2, T_PARSE, TRUE, 1, 0, "", 0, G_NONE) }

\* A first thought that branches from the second.
B1f == BurstThought(1, L_CACHE, FALSE, 0, 2, "b2", 0, << >>)

SessionBatches ==
  { BurstInput(G_GOAL, << B1 >>, NoConsolidation),
    BurstInput(G_OTHER, << B2, B1f >>, NoConsolidation),
    BurstInput(G_SHORT, << B1 >>, NoConsolidation) }

ConsolidateInput(path, verdict) == [ winningPath |-> path, verdict |-> verdict ]

Consolidations ==
  { ConsolidateInput(<< 1 >>, "needs_more_work"),
    ConsolidateInput(<< 1, 2 >>, "needs_more_work"),
    ConsolidateInput(<< 1 >>, "ready") }

SessionThought ==
  \E input \in SessionInputs :
    /\ alive
    /\ Len(processThought(Store, input, clock).store.thoughtHistory) <= MaxSession
    /\ Len(fsQueue) < MaxPending
    /\ Commit(processThought(Store, input, clock), FALSE)

SessionBatch ==
  \E input \in SessionBatches :
    /\ alive
    /\ Len(fsQueue) < MaxPending
    /\ Commit(submitSession(Store, input, clock), FALSE)

SessionReset ==
  /\ alive
  /\ Len(fsQueue) < MaxPending
  /\ Commit(resetSession(Store), FALSE)

Consolidate ==
  \E input \in Consolidations :
    /\ alive
    /\ Len(fsQueue) < MaxPending
    /\ Commit(consolidate(Store, input), FALSE)

NextSession ==
  \/ SessionThought
  \/ SessionBatch
  \/ SessionReset
  \/ Consolidate
  \/ BeginOperation
  \/ WriteOpen
  \/ WriteDone
  \/ Rename
  \/ Unlink

SpecSession == Init /\ [][NextSession]_vars

(***************************************************************************)
(* SpecBurst: batches of up to three thoughts: revisions that take a place *)
(* in the numbering, texts that repeat (with and without words that        *)
(* count), blockers on the winning path.                                   *)
(***************************************************************************)

B2i == BurstThought(2, L_CACHE, FALSE, 0, 0, "", 0, << >>)
R1  == BurstThought(1, L_GRAPH, TRUE, 2, 0, "", 0, << >>)
R1s == BurstThought(1, L_GRAPH, TRUE, 1, 0, "", 0, << >>)
Ra  == BurstThought(2, L_GRAPH, TRUE, 1, 0, "", 0, << >>)
Rb  == BurstThought(2, L_MUTEX, TRUE, 1, 0, "", 0, BlockerExt)
S1  == BurstThought(1, L_STOP, FALSE, 0, 0, "", 0, << >>)
S2  == BurstThought(2, L_STOP, FALSE, 0, 0, "", 0, << >>)
S3  == BurstThought(3, L_STOP, FALSE, 0, 0, "", 0, << >>)

NeedsMoreWork(path) == [winningPath |-> path, verdict |-> "needs_more_work"]

BurstBatches ==
  { BurstInput(G_GOAL, << B1, B2 >>, NoConsolidation),
    BurstInput(G_GOAL, << B1, B2, B3 >>, NoConsolidation),
    BurstInput(G_GOAL, << R1, B2 >>, NoConsolidation),
    BurstInput(G_GOAL, << B1, R2, B3 >>, NoConsolidation),
    BurstInput(G_GOAL, << B1, R1s, B2 >>, NoConsolidation),
    BurstInput(G_GOAL, << B1, B3 >>, NoConsolidation),
    BurstInput(G_GOAL, << B1, B1 >>, NoConsolidation),
    BurstInput(G_GOAL, << B1, B2c, B3c >>, NoConsolidation),
    BurstInput(G_GOAL, << B1, B2i >>, NoConsolidation),
    BurstInput(G_GOAL, << S1, S2 >>, NoConsolidation),
    BurstInput(G_GOAL, << S1, S2, S3 >>, NoConsolidation),
    BurstInput(G_GOAL, << B1x, B2 >>, Ready(<< 1, 2 >>)),
    BurstInput(G_GOAL, << B1x, B2 >>, Ready(<< 2 >>)),
    BurstInput(G_GOAL, << B1x, B2 >>, NeedsMoreWork(<< 1, 2 >>)),
    BurstInput(G_GOAL, << B1x, R2 >>, Ready(<< 1, 2 >>)),
    BurstInput(G_GOAL, << B1, Ra, Rb >>, Ready(<< 1, 2 >>)) }

BurstSubmit ==
  \E input \in BurstBatches :
    /\ alive
    /\ Len(submitSession(Store, input, clock).store.thoughtHistory) <= MaxBurst
    /\ Len(fsQueue) < MaxPendingFs
    /\ Commit(submitSession(Store, input, clock), FALSE)

NextBurst ==
  \/ BurstSubmit
  \/ BeginOperation
  \/ WriteOpen
  \/ WriteDone
  \/ Rename

SpecBurst == Init /\ [][NextBurst]_vars

(***************************************************************************)
(* SpecPath: validatePathConnectivity on the sessions that fresh thoughts, *)
(* a branch continuation and revisions build, for every path of up to      *)
(* MaxPath numbers.                                                        *)
(***************************************************************************)

PathInputs ==
  { ThoughtInput(n, T_CACHE, FALSE, 0, 0, "", 0, G_NONE) : n \in 1..MaxPathNumber }
  \cup { ThoughtInput(3, T_PARSE, FALSE, 0, 1, "b1", 0, G_NONE),
         ThoughtInput(2, T_PARSE, TRUE, 1, 0, "", 0, G_NONE),
         ThoughtInput(3, T_PARSE, TRUE, 2, 0, "", 0, G_NONE) }

Paths ==
  UNION { [ 1..n -> 1..MaxPathNumber ] : n \in 0..MaxPath }

PathThought ==
  \E input \in PathInputs :
    /\ alive
    /\ Len(processThought(Store, input, clock).store.thoughtHistory) <= MaxSession
    /\ Len(fsQueue) < MaxPending
    /\ Commit(processThought(Store, input, clock), FALSE)

\* One call of validatePathConnectivity on the thoughts of the session.
CheckPath ==
  \E path \in Paths :
    /\ alive
    /\ result' = [ op |-> "validatePathConnectivity", path |-> path,
                   verdict |-> validatePathConnectivity(
                                 path, getCurrentSessionThoughts(Store)) ]
    /\ UNCHANGED << storeVars, clock, cacheVars, fsVars, heldLog, durable >>

NextPath ==
  \/ PathThought
  \/ CheckPath
  \/ BeginOperation
  \/ WriteOpen
  \/ WriteDone
  \/ Rename
  \/ Unlink

SpecPath == Init /\ [][NextPath]_vars

(***************************************************************************)
(* SpecAudit: sessions of up to three thoughts with a low confidence, a    *)
(* revision and an extension, audited by consolidate on every path of up   *)
(* to two numbers and on the whole chain.                                  *)
(***************************************************************************)

AuditInputs ==
  { ThoughtInput(n, T_CACHE, FALSE, 0, 0, "", 0, G_NONE) : n \in 1..MaxAudit }
  \cup { ThoughtInput(2, T_CACHE, FALSE, 0, 0, "", 3, G_NONE),
         ThoughtInput(3, T_PARSE, TRUE, 2, 0, "", 0, G_NONE) }

ExtendInput(n, type, impact) ==
  [ targetThoughtNumber |-> n, extensionType |-> type, content |-> T_PARSE,
    impactOnFinalResult |-> impact ]

AuditExtensions ==
  { ExtendInput(n, ti[1], ti[2]) :
      n \in 1..MaxAuditPath,
      ti \in { << "critique", "blocker" >>, << "critique", "high" >>,
               << "elaboration", "blocker" >> } }

AuditPaths ==
  UNION { [ 1..n -> 1..MaxAudit ] : n \in 0..MaxAuditPath } \cup { << 1, 2, 3 >> }

\* The paths given up as dead ends.
AuditDeadEnds == { << >>, << 1 >>, << 1, 2 >> }

AuditConsolidations ==
  { ConsolidateInput(path, "ready") : path \in AuditPaths }
  \cup { ConsolidateInput(path, "needs_more_work") : path \in AuditDeadEnds }

\* The extensions the store holds.
RECURSIVE ExtensionCount(_)
ExtensionCount(h) ==
  IF h = << >> THEN 0 ELSE Len(Head(h).extensions) + ExtensionCount(Tail(h))

AuditThought ==
  \E input \in AuditInputs :
    /\ alive
    /\ Len(processThought(Store, input, clock).store.thoughtHistory) <= MaxAudit
    /\ Len(fsQueue) < MaxPending
    /\ Commit(processThought(Store, input, clock), FALSE)

ExtendThought ==
  \E input \in AuditExtensions :
    /\ alive
    /\ ExtensionCount(extendThought(Store, input).store.thoughtHistory) <= MaxExtensions
    /\ Len(fsQueue) < MaxPending
    /\ Commit(extendThought(Store, input), FALSE)

AuditConsolidate ==
  \E input \in AuditConsolidations :
    /\ alive
    /\ Len(fsQueue) < MaxPending
    /\ Commit(consolidate(Store, input), FALSE)

NextAudit ==
  \/ AuditThought
  \/ ExtendThought
  \/ AuditConsolidate
  \/ BeginOperation
  \/ WriteOpen
  \/ WriteDone
  \/ Rename
  \/ Unlink

SpecAudit == Init /\ [][NextAudit]_vars

(***************************************************************************)
(* SpecDeadEnds: a session of three thoughts on which more paths are given *)
(* up than the dead-end list holds.  The paths are numbered; a call gives  *)
(* up a path numbered up to one more than the highest one in the list, so  *)
(* the list fills, evicts, and takes evicted paths again.                  *)
(***************************************************************************)

\* The k-th path over the numbers 1..3: the 3 paths of one number, then the
\* 9 of two, then the 27 of three.
DeadEndPath(k) ==
  IF k <= 3 THEN << k >>
  ELSE IF k <= 12 THEN << ((k - 4) \div 3) + 1, ((k - 4) % 3) + 1 >>
  ELSE << ((k - 13) \div 9) + 1, (((k - 13) \div 3) % 3) + 1, ((k - 13) % 3) + 1 >>

\* The highest number of a path in the list, 0 for the empty list.
HighestDeadEnd(list) ==
  IF list = << >> THEN 0
  ELSE CHOOSE k \in 1..MaxDeadEndPaths :
         /\ DeadEndExists(list, DeadEndPath(k))
         /\ \A j \in (k + 1)..MaxDeadEndPaths : ~ DeadEndExists(list, DeadEndPath(j))

DeadEndInputs ==
  { ThoughtInput(n, T_CACHE, FALSE, 0, 0, "", 0, G_NONE) : n \in 1..MaxAudit }

DeadEndThought ==
  \E input \in DeadEndInputs :
    /\ alive
    /\ Len(processThought(Store, input, clock).store.thoughtHistory) <= MaxAudit
    /\ Len(fsQueue) < MaxPending
    /\ Commit(processThought(Store, input, clock), FALSE)

GiveUp ==
  \E k \in 1..MaxDeadEndPaths :
    /\ alive
    /\ k <= HighestDeadEnd(deadEnds) + 1
    /\ Len(fsQueue) < MaxPending
    /\ Commit(consolidate(Store, ConsolidateInput(DeadEndPath(k), "needs_more_work")),
              FALSE)

NextDeadEnds ==
  \/ DeadEndThought
  \/ GiveUp
  \/ BeginOperation
  \/ WriteOpen
  \/ WriteDone
  \/ Rename
  \/ Unlink

SpecDeadEnds == Init /\ [][NextDeadEnds]_vars

(***************************************************************************)
(* SpecLoad: loadSession against thoughts, given-up paths, saves that      *)
(* fail, crashes and restarts.  The methods of the service are called in   *)
(* any order, as its interface allows (the server's main() awaits          *)
(* loadSession before it connects).                                        *)
(***************************************************************************)

LoadInputs ==
  { ThoughtInput(n, T_CACHE, FALSE, 0, 0, "", 0, G_NONE) : n \in 1..MaxLoadHistory }

\* The ages fs.stat may report, around the TTL.
FileAges ==
  { 0, SESSION_TTL_HOURS * MS_PER_HOUR, SESSION_TTL_HOURS * MS_PER_HOUR + 1 }

PendingLoads == { i \in DOMAIN fsQueue : fsQueue[i].kind = "load" }

LoadThought ==
  \E input \in LoadInputs :
    /\ alive
    /\ Len(processThought(Store, input, clock).store.thoughtHistory) <= MaxLoadHistory
    /\ Len(fsQueue) < MaxPendingFs
    /\ Commit(processThought(Store, input, clock), FALSE)

LoadGiveUp ==
  /\ alive
  /\ Len(fsQueue) < MaxPendingFs
  /\ Commit(consolidate(Store, ConsolidateInput(<< 1 >>, "needs_more_work")), FALSE)

LoadSession ==
  /\ PendingLoads = {}
  /\ Len(fsQueue) < MaxPendingFs
  /\ FsLoadCall

LoadStat    == \E i \in DOMAIN fsQueue : \E ageMs \in FileAges : FsLoadStat(i, ageMs)
LoadRead    == \E i \in DOMAIN fsQueue : FsLoadRead(i)
LoadFail    == \E i \in DOMAIN fsQueue : FsLoadFail(i)
LoadCleared == \E i \in DOMAIN fsQueue : FsLoadCleared(i)

NextLoad ==
  \/ LoadThought
  \/ LoadGiveUp
  \/ LoadSession
  \/ LoadStat
  \/ LoadRead
  \/ LoadFail
  \/ LoadCleared
  \/ BeginOperation
  \/ WriteOpen
  \/ WriteDone
  \/ Rename
  \/ SaveFail
  \/ Cleanup
  \/ Unlink
  \/ Crash
  \/ Start

SpecLoad == Init /\ [][NextLoad]_vars

(***************************************************************************)
(* SpecThreshold: getStagnationThreshold on every history length up to     *)
(* MaxThoughtCount, one call after another.                                *)
(***************************************************************************)

Threshold ==
  \E thoughtCount \in 0..MaxThoughtCount :
    /\ result' = [ op |-> "getStagnationThreshold", thoughtCount |-> thoughtCount,
                   threshold |-> getStagnationThreshold(thoughtCount) ]
    /\ UNCHANGED << storeVars, clock, cacheVars, fsVars, heldLog, durable >>

NextThreshold == Threshold

SpecThreshold == Init /\ [][NextThreshold]_vars

(***************************************************************************)
(* Properties                                                              *)
(***************************************************************************)

\* The non-revision thoughts of a list have pairwise different numbers.
DistinctNumbers(thoughts) ==
  \A i, j \in DOMAIN thoughts :
    (i # j /\ ~ thoughts[i].isRevision /\ ~ thoughts[j].isRevision)
      => thoughts[i].thoughtNumber # thoughts[j].thoughtNumber

\* C1: at every point, after any sequence of single submissions, batch
\* submissions and resets, no two stored non-revision thoughts of the
\* current session have the same thoughtNumber.
C1_NoDuplicateNumbers == DistinctNumbers(getCurrentSessionThoughts(Store))

\* A duplicate number was submitted to a session that holds two thoughts, and
\* was turned away.
C1_Witness ==
  /\ result.op = "processThought"
  /\ result.warning = "duplicate"
  /\ Len(getCurrentSessionThoughts(Store)) = 2

\* C2: a batch submission that fails a validation check (structural,
\* content, stagnation or consolidation) commits nothing: thoughts, branches,
\* dead ends, goal, session id and lastThoughtNumber are what they were
\* before the call.
C2_FailedBatchCommitsNothing ==
  [][ result'.op = "submitSession"
        => \A input \in StoreBatches :
             ( /\ BurstValidate(input.goal, input.thoughts,
                                input.consolidation).errors # {}
               /\ result' = submitSession(Store, input, clock).result
               /\ Store' = submitSession(Store, input, clock).store )
               => UNCHANGED storeVars ]_vars

\* A batch failed the stagnation check on a store that holds a goal and
\* thoughts.
C2_Witness ==
  /\ result.op = "submitSession"
  /\ "stagnation" \in result.errors
  /\ Len(thoughtHistory) = 2
  /\ sessionGoal # ""

HardRejections ==
  { "empty", "duplicate", "invalid_branch", "invalid_revision",
    "shallow_revision", "circular_revision" }

\* C3: a single submission that is hard-rejected (empty text, duplicate
\* number, non-existent branch origin, non-existent revision target, shallow
\* or circular revision) is never appended to the thought list or to any
\* branch: the list and every branch keep their length or shrink.
C3_HardRejectionNotStored ==
  [][ (result'.op = "processThought" /\ result'.warning \in HardRejections)
        => /\ thoughtHistory' = thoughtHistory \/ thoughtHistory' = << >>
           /\ branches' = branches \/ branches' = << >> ]_vars

\* A circular revision was turned away.
C3_Witness ==
  /\ result.op = "processThought"
  /\ result.isError
  /\ result.warning = "circular_revision"
  /\ Len(thoughtHistory) = 2

\* C4: however many saves and clears are requested while earlier ones are
\* pending, no two of them are inside their file-system critical section
\* (temp write, rename, unlink) at the same time.
C4_MutualExclusion == Cardinality(InCriticalSection) <= 1

\* Three operations are pending and one of them is writing.
C4_Witness ==
  /\ Len(fsQueue) >= 3
  /\ \E i \in DOMAIN fsQueue : fsQueue[i].pc = "writing"

\* The session file is absent or the complete serialization of a value the
\* store held.
SessionFileIsHeldState ==
  \/ files[SESSION_FILE] = NoFile
  \/ /\ files[SESSION_FILE].kind = "full"
     /\ files[SESSION_FILE].version \in DOMAIN heldLog
     /\ files[SESSION_FILE].content = heldLog[files[SESSION_FILE].version]

\* The session file does not go back to an older value of the store.
SessionFileAdvances ==
  (files[SESSION_FILE].kind = "full" /\ files'[SESSION_FILE].kind = "full")
    => files'[SESSION_FILE].version >= files[SESSION_FILE].version

\* An operation that starts is the oldest one requested and not yet over.
StartsInRequestOrder ==
  \A i \in DOMAIN fsQueue :
    ( /\ Len(fsQueue') = Len(fsQueue)
      /\ fsQueue[i].pc = "waiting"
      /\ fsQueue'[i].pc # "waiting" ) => i = 1

\* C5: saves take effect on disk in the order in which they were requested;
\* at every moment the session file's content is the complete serialization
\* of one state the store held, and the file never goes back to an older
\* state after having shown a newer one.
C5_SavesInOrder ==
  /\ []SessionFileIsHeldState
  /\ [][SessionFileAdvances /\ StartsInRequestOrder]_vars

\* The file shows the third value of the store while a later save waits.
C5_Witness ==
  /\ files[SESSION_FILE].kind = "full"
  /\ files[SESSION_FILE].version >= 3
  /\ \E i \in DOMAIN fsQueue : fsQueue[i].kind = "save" /\ fsQueue[i].pc = "waiting"

\* C6: if the process crashes at any point during a save, the session file
\* still holds the complete content written by the last save that finished
\* (or is absent if none finished or it was cleared); it is never left
\* partially written.
C6_CrashKeepsLastSave ==
  ~ alive => /\ files[SESSION_FILE] # PartialFile
             /\ files[SESSION_FILE] = durable

\* The process crashed while a save was writing, after another save had
\* finished.
C6_Witness ==
  /\ ~ alive
  /\ files[TEMP_FILE] = PartialFile
  /\ durable # NoFile
  /\ files[SESSION_FILE] = durable

\* A step of processThought that stored a thought, and the thought.
IsAdmission == result'.op = "processThought" /\ ~ result'.isError
Admitted == thoughtHistory'[Len(thoughtHistory')]

\* C7 (as claimed): lastThoughtNumber changes only when a non-revision
\* thought is accepted: a single submission that is accepted as a revision,
\* or rejected, leaves it unchanged.
C7_Claim ==
  [][ (result'.op = "processThought" /\ lastThoughtNumber' # lastThoughtNumber)
        => (~ result'.isError /\ ~ Admitted.isRevision) ]_vars

\* lastThoughtNumber as the sequence check reads it: 0 after the auto-reset
\* that a fresh thought numbered 1 causes.
LastAtCheck(n) ==
  IF n = 1 /\ Len(thoughtHistory) > 0 THEN 0 ELSE lastThoughtNumber

IsFreshAdmission ==
  IsAdmission /\ ~ Admitted.isRevision /\ Admitted.branchFromThought = 0

\* C8 (as claimed): a non-revision, non-branch thought is admitted without a
\* sequence-break warning only if its thoughtNumber is lastThoughtNumber + 1.
C8_Claim ==
  [][ (IsFreshAdmission /\ result'.warning # "sequence_break")
        => Admitted.thoughtNumber = LastAtCheck(Admitted.thoughtNumber) + 1 ]_vars

\* C8 (amended): a non-revision, non-branch thought is admitted with a
\* sequence-break warning exactly when lastThoughtNumber is not 0 and its
\* thoughtNumber is greater than lastThoughtNumber + 1; a first thought and a
\* lower number are admitted without the warning.
C8_SequenceBreakOnlyOnSkip ==
  [][ IsFreshAdmission
        => ( result'.warning = "sequence_break"
               <=> /\ LastAtCheck(Admitted.thoughtNumber) # 0
                   /\ Admitted.thoughtNumber
                        > LastAtCheck(Admitted.thoughtNumber) + 1 ) ]_vars

\* A thought numbered below its predecessor was admitted without a warning.
C8_Witness ==
  /\ result.op = "processThought"
  /\ ~ result.isError
  /\ result.warning = NoWarning
  /\ Len(thoughtHistory) = 2
  /\ ~ thoughtHistory[1].isRevision
  /\ ~ thoughtHistory[2].isRevision
  /\ thoughtHistory[2].branchFromThought = 0
  /\ thoughtHistory[2].thoughtNumber < thoughtHistory[1].thoughtNumber

\* C9: a submission whose only findings are soft warnings (sequence skip,
\* stagnation, low entropy, declining confidence) is stored in the thought
\* list and returned as a non-error result.
C9_SoftWarningsNeverBlock ==
  [][ (result'.op = "processThought" /\ result'.warning \notin HardRejections)
        => /\ ~ result'.isError
           /\ thoughtHistory' # << >>
           /\ \/ thoughtHistory' = Append(thoughtHistory, Admitted)
              \/ thoughtHistory' = << Admitted >> ]_vars

\* A fourth thought was stored with a sequence-break and a stagnation warning.
C9_Witness ==
  /\ result.op = "processThought"
  /\ ~ result.isError
  /\ result.warning = "sequence_break"
  /\ result.stagnation = "stagnation"
  /\ Len(thoughtHistory) = 4

\* C10 (as claimed): every thought stored as a revision references a target
\* thoughtNumber that belongs to a thought stored before it in the same
\* session.
C10_Claim ==
  \A i \in DOMAIN thoughtHistory :
    thoughtHistory[i].isRevision
      => \E j \in 1..(i - 1) :
           /\ thoughtHistory[j].thoughtNumber = thoughtHistory[i].revisesThought
           /\ thoughtHistory[j].sessionId = thoughtHistory[i].sessionId

\* Does the thought at position i branch from a thoughtNumber that a thought
\* of the same session at one of the positions js has?
BranchOriginAmong(i, js) ==
  \E j \in js :
    /\ thoughtHistory[j].thoughtNumber = thoughtHistory[i].branchFromThought
    /\ thoughtHistory[j].sessionId = thoughtHistory[i].sessionId

\* C11 (as claimed): every thought stored with a branch origin references a
\* thoughtNumber that belongs to a thought stored before it in the same
\* session.
C11_Claim ==
  \A i \in DOMAIN thoughtHistory :
    thoughtHistory[i].branchFromThought # 0 => BranchOriginAmong(i, 1..(i - 1))

BranchOriginStored ==
  \A i \in DOMAIN thoughtHistory :
    thoughtHistory[i].branchFromThought # 0
      => BranchOriginAmong(i, DOMAIN thoughtHistory)

SingleBranchOriginStoredBefore ==
  (IsAdmission /\ Admitted.branchFromThought # 0)
    => /\ thoughtHistory' = Append(thoughtHistory, Admitted)
       /\ \E j \in DOMAIN thoughtHistory :
            /\ thoughtHistory[j].thoughtNumber = Admitted.branchFromThought
            /\ thoughtHistory[j].sessionId = Admitted.sessionId

\* C11 (amended): every thought stored with a branch origin references a
\* thoughtNumber that belongs to a thought stored in the same session; a
\* single submission is admitted only when that thought is already stored,
\* a thought of a batch may branch from a later thought of the batch.
C11_BranchOriginInSession ==
  /\ []BranchOriginStored
  /\ [][SingleBranchOriginStoredBefore]_vars

\* A branch continuation was admitted after a batch whose first thought
\* branches from its second.
C11_Witness ==
  /\ result.op = "processThought"
  /\ ~ result.isError
  /\ Len(thoughtHistory) = 3
  /\ thoughtHistory[1].branchFromThought = 2
  /\ thoughtHistory[3].branchFromThought = 2

\* Is this step the call processThought(input)?
IsCallOf(input) ==
  /\ result' = processThought(Store, input, clock).result
  /\ Store' = processThought(Store, input, clock).store

\* Does input revise a stored thought of the session with exactly its text?
RepeatsTarget(input) ==
  /\ input.isRevision
  /\ input.revisesThought # 0
  /\ HasThought(getCurrentSessionThoughts(Store), input.revisesThought)
  /\ FindThought(getCurrentSessionThoughts(Store), input.revisesThought).thought
       = input.thought

\* C12 (as claimed): a revision whose text is byte-identical to the text of
\* its target is rejected as a shallow revision and is not stored, whatever
\* that text is.
C12_Claim ==
  [][ \A input \in SessionInputs :
        (IsCallOf(input) /\ RepeatsTarget(input))
          => /\ result'.isError
             /\ result'.warning = "shallow_revision"
             /\ thoughtHistory' = thoughtHistory ]_vars

\* C13: when a non-revision thought numbered 1 is submitted to a store that
\* holds thoughts and is accepted, the store afterwards contains only that
\* thought: no thought, branch, dead end or goal of the previous session
\* remains (the goal is the one the submission gives, if any).
C13_FreshFirstThoughtReplacesSession ==
  [][ \A input \in SessionInputs :
        ( /\ IsCallOf(input)
          /\ input.thoughtNumber = 1 /\ ~ input.isRevision
          /\ thoughtHistory # << >>
          /\ ~ result'.isError )
          => /\ thoughtHistory' = << RecordOf(input, currentSessionId') >>
             /\ branches' = << >>
             /\ deadEnds' = << >>
             /\ sessionGoal' = input.goal
             /\ lastThoughtNumber' = 1 ]_vars

\* A thought numbered 1 was accepted and is alone in the store, while the
\* session file still shows the session before it: thoughts, a branch, a
\* dead end and a goal.
C13_Witness ==
  /\ result.op = "processThought"
  /\ ~ result.isError
  /\ Len(thoughtHistory) = 1
  /\ thoughtHistory[1].thoughtNumber = 1
  /\ sessionGoal = ""
  /\ files[SESSION_FILE].kind = "full"
  /\ Len(files[SESSION_FILE].content.thoughtHistory) >= 2
  /\ DOMAIN files[SESSION_FILE].content.branches # {}
  /\ files[SESSION_FILE].content.deadEnds # << >>
  /\ files[SESSION_FILE].content.sessionGoal # ""

\* C14: after an explicit reset the store has no thoughts, no branches, no
\* dead ends, no goal and no session id (and lastThoughtNumber is 0),
\* whatever it held before.
C14_ResetEmptiesStore ==
  [][ result'.op = "resetSession"
        => /\ thoughtHistory' = << >>
           /\ branches' = << >>
           /\ deadEnds' = << >>
           /\ sessionGoal' = ""
           /\ currentSessionId' = 0
           /\ lastThoughtNumber' = 0 ]_vars

\* A reset cleared a store that held thoughts, a branch, a dead end and a
\* goal (the session file still shows them).
C14_Witness ==
  /\ result.op = "resetSession"
  /\ result.clearedThoughts >= 2
  /\ result.clearedBranches >= 1
  /\ thoughtHistory = << >>
  /\ files[SESSION_FILE].kind = "full"
  /\ files[SESSION_FILE].content.deadEnds # << >>
  /\ files[SESSION_FILE].content.sessionGoal # ""
  /\ files[SESSION_FILE].content.currentSessionId # 0

\* C15 (as claimed): every submission of a non-revision thought numbered 1
\* that starts a session gives it a session id different from the id of
\* every earlier session, the one just reset included.
C15_Claim ==
  [][ (IsAdmission /\ Admitted.thoughtNumber = 1 /\ ~ Admitted.isRevision)
        => /\ currentSessionId' # 0
           /\ \A k \in DOMAIN heldLog :
                heldLog[k].currentSessionId # currentSessionId' ]_vars

\* A value of the store that belongs to one session: every record and every
\* dead end carries the session id of the value, every record of a branch is
\* a record of the thought list, and every dead end names thoughts of the
\* list.
OneSession(c) ==
  /\ \A i \in DOMAIN c.thoughtHistory :
       c.thoughtHistory[i].sessionId = c.currentSessionId
  /\ \A b \in DOMAIN c.branches : \A k \in DOMAIN c.branches[b] :
       \E i \in DOMAIN c.thoughtHistory : c.thoughtHistory[i] = c.branches[b][k]
  /\ \A d \in DOMAIN c.deadEnds :
       /\ c.deadEnds[d].sessionId = c.currentSessionId
       /\ \A p \in DOMAIN c.deadEnds[d].path :
            HasThought(c.thoughtHistory, c.deadEnds[d].path[p])

\* What a request can read and what a save writes or has written.
NoMixedState ==
  /\ OneSession(Store)
  /\ \A f \in FileNames : files[f].kind = "full" => OneSession(files[f].content)
  /\ \A i \in DOMAIN fsQueue :
       fsQueue[i].data.kind = "full" => OneSession(fsQueue[i].data.content)

\* The records of a batch: one per thought, in the order of their numbers.
BatchRecords(input, sessionId) ==
  [ i \in DOMAIN input.thoughts |->
      toThoughtRecord(SortByNumber(input.thoughts)[i], sessionId) ]

BatchReplacesStore ==
  \A input \in SessionBatches :
    ( /\ result'.op = "submitSession"
      /\ result'.status = "accepted"
      /\ result' = submitSession(Store, input, clock).result
      /\ Store' = submitSession(Store, input, clock).store )
      => /\ thoughtHistory' = BatchRecords(input, currentSessionId')
         /\ deadEnds' = << >>
         /\ \A b \in DOMAIN branches' : \A k \in DOMAIN branches'[b] :
              \E i \in DOMAIN thoughtHistory' : thoughtHistory'[i] = branches'[b][k]

\* C16: after an accepted batch the thought list consists of exactly the
\* batch's thoughts, one record per submitted thought, and no thought,
\* branch or dead end of the state before remains; the store that a request
\* reads and the state that a save writes are never a mix of two sessions.
C16_BatchReplacesSessionAsOneUnit ==
  /\ []NoMixedState
  /\ [][BatchReplacesStore]_vars

\* A batch of two thoughts was accepted while the session file still shows
\* the session before it, which held a branch and a dead end.
C16_Witness ==
  /\ result.op = "submitSession"
  /\ result.status = "accepted"
  /\ Len(thoughtHistory) = 2
  /\ deadEnds = << >>
  /\ files[SESSION_FILE].kind = "full"
  /\ files[SESSION_FILE].content.currentSessionId # currentSessionId
  /\ DOMAIN files[SESSION_FILE].content.branches # {}
  /\ files[SESSION_FILE].content.deadEnds # << >>

\* C17 (as claimed): an accepted batch creates a new session: afterwards the
\* current session id is a newly created, non-empty id, and every committed
\* record carries that id.
C17_Claim ==
  [][ (result'.op = "submitSession" /\ result'.status = "accepted")
        => /\ currentSessionId' # 0
           /\ result'.sessionId = currentSessionId'
           /\ \A i \in DOMAIN thoughtHistory' :
                thoughtHistory'[i].sessionId = currentSessionId' ]_vars

\* Is this step the call submitSession(input)?
IsBatchCallOf(input) ==
  /\ result'.op = "submitSession"
  /\ result' = submitSession(Store, input, clock).result
  /\ Store' = submitSession(Store, input, clock).store

NonRevisions(thoughts) == { i \in DOMAIN thoughts : ~ thoughts[i].isRevision }

\* The non-revision thoughts are numbered 1..N, each number once.
ContiguousRun(thoughts) ==
  /\ { thoughts[i].thoughtNumber : i \in NonRevisions(thoughts) }
       = 1..Cardinality(NonRevisions(thoughts))
  /\ \A i, j \in NonRevisions(thoughts) :
       thoughts[i].thoughtNumber = thoughts[j].thoughtNumber => i = j

\* C18 (as claimed): a batch is accepted only if the thoughtNumbers of its
\* non-revision thoughts form a contiguous run 1..N with no duplicates.
C18_Claim ==
  [][ \A input \in BurstBatches :
        (IsBatchCallOf(input) /\ result'.status = "accepted")
          => ContiguousRun(input.thoughts) ]_vars

\* All texts of the batch are the same after normalization.
SameNormalizedTexts(thoughts) ==
  \A i, j \in DOMAIN thoughts :
    NormalizeForComparison(thoughts[i].thought)
      = NormalizeForComparison(thoughts[j].thought)

\* C19 (as claimed): a batch of three or more thoughts whose texts are all
\* identical after normalization is rejected for stagnation, and a batch of
\* exactly two thoughts is never rejected for stagnation.
C19_Claim ==
  [][ \A input \in BurstBatches :
        IsBatchCallOf(input)
          => /\ (Len(input.thoughts) >= 3 /\ SameNormalizedTexts(input.thoughts))
                  => (result'.status = "rejected" /\ "stagnation" \in result'.errors)
             /\ Len(input.thoughts) = 2 => "stagnation" \notin result'.errors ]_vars

\* Does the batch have a thought numbered n with a blocker extension that no
\* revision of the batch revises?
UnresolvedBlocker(thoughts, n) ==
  /\ \E i \in DOMAIN thoughts :
       thoughts[i].thoughtNumber = n /\ BurstHasBlocker(thoughts[i])
  /\ ~ \E j \in DOMAIN thoughts :
         thoughts[j].isRevision /\ thoughts[j].revisesThought = n

\* C20 (as claimed): a batch with a consolidation of verdict "ready" whose
\* winning path includes a thought with a blocker extension that no revision
\* in the batch addresses is rejected.
C20_Claim ==
  [][ \A input \in BurstBatches :
        ( /\ IsBatchCallOf(input)
          /\ input.consolidation.verdict = "ready"
          /\ \E p \in DOMAIN input.consolidation.winningPath :
               UnresolvedBlocker(input.thoughts, input.consolidation.winningPath[p]) )
          => result'.status = "rejected" ]_vars

\* The valid-predecessor set of position i of a path over the thoughts ts:
\* the number before path[i], the branch origin of path[i], the revision
\* target of path[i] and the number before it, and the number after the
\* revision target of path[i-1].
PredecessorSet(path, i, ts) ==
  { path[i] - 1 }
    \cup (IF HasThought(ts, path[i]) /\ PathMapGet(ts, path[i]).branchFromThought # 0
            THEN { PathMapGet(ts, path[i]).branchFromThought } ELSE {})
    \cup (IF /\ HasThought(ts, path[i])
             /\ PathMapGet(ts, path[i]).isRevision
             /\ PathMapGet(ts, path[i]).revisesThought # 0
            THEN { PathMapGet(ts, path[i]).revisesThought,
                   PathMapGet(ts, path[i]).revisesThought - 1 } ELSE {})
    \cup (IF /\ HasThought(ts, path[i - 1])
             /\ PathMapGet(ts, path[i - 1]).isRevision
             /\ PathMapGet(ts, path[i - 1]).revisesThought # 0
            THEN { PathMapGet(ts, path[i - 1]).revisesThought + 1 } ELSE {})

\* The positions of a path whose predecessor is not in their set.
Disconnected(path, ts) ==
  { i \in 2..Len(path) : path[i - 1] \notin PredecessorSet(path, i, ts) }

\* The same, and the positions that name no thought of ts.
DisconnectedOrMissing(path, ts) ==
  { i \in 2..Len(path) :
      ~ HasThought(ts, path[i]) \/ path[i - 1] \notin PredecessorSet(path, i, ts) }

\* The verdict is valid exactly when bad is empty, and else reports the
\* number at the first position of bad.
ReportsFirstOf(verdict, path, bad) ==
  /\ verdict.valid <=> bad = {}
  /\ bad # {} => \E i \in bad : /\ \A j \in bad : i <= j
                                /\ verdict.disconnectedAt = path[i]

\* C21 (as claimed): validatePathConnectivity(path, thoughts) is valid exactly
\* when, for every i >= 1, path[i-1] is in the valid-predecessor set of
\* path[i]; otherwise it reports disconnectedAt = path[i] for the first
\* violating position i.
C21_Claim ==
  result.op = "validatePathConnectivity"
    => ReportsFirstOf(result.verdict, result.path,
                      Disconnected(result.path, getCurrentSessionThoughts(Store)))

\* C21 (amended): validatePathConnectivity(path, thoughts) is valid exactly
\* when, for every i >= 1, path[i] is the number of a thought of the session
\* and path[i-1] is in its valid-predecessor set; otherwise it reports
\* disconnectedAt = path[i] for the first position i that names no thought
\* or has its predecessor outside the set.
C21_PathConnectivity ==
  result.op = "validatePathConnectivity"
    => ReportsFirstOf(result.verdict, result.path,
                      DisconnectedOrMissing(result.path,
                                            getCurrentSessionThoughts(Store)))

\* The path 1, 3 was checked on a plain session of three thoughts and found
\* disconnected at 3.
C21_Witness ==
  /\ result.op = "validatePathConnectivity"
  /\ result.path = << 1, 3 >>
  /\ ~ result.verdict.valid
  /\ result.verdict.disconnectedAt = 3
  /\ Len(thoughtHistory) = 3
  /\ \A i \in DOMAIN thoughtHistory :
       /\ ~ thoughtHistory[i].isRevision
       /\ thoughtHistory[i].branchFromThought = 0
       /\ thoughtHistory[i].thoughtNumber = i


\* Is this step the call consolidate(input)?
IsConsolidateCallOf(input) ==
  /\ result'.op = "consolidate"
  /\ result' = consolidate(Store, input).result
  /\ Store' = consolidate(Store, input).store

\* Some member of the path is the number of no thought of the session.
NamesUnknownThought(path, sessionThoughts) ==
  \E p \in DOMAIN path :
    \A i \in DOMAIN sessionThoughts : sessionThoughts[i].thoughtNumber # path[p]

\* C22: a consolidate call whose path has a member that is not the
\* thoughtNumber of a thought of the current session fails with a hard
\* error: canProceedToFinalAnswer is false, no dead end is recorded, the
\* store is unchanged and no save is queued.
C22_UnknownPathMemberIsHardError ==
  [][ \A input \in AuditConsolidations :
        (IsConsolidateCallOf(input)
         /\ NamesUnknownThought(input.winningPath, getCurrentSessionThoughts(Store)))
          => /\ result'.status = "error"
             /\ ~ result'.canProceedToFinalAnswer
             /\ deadEnds' = deadEnds
             /\ Store' = Store
             /\ fsQueue' = fsQueue ]_vars

\* A session of two thoughts answered a path that names thought 3 with the
\* hard error, and holds no dead end.
C22_Witness ==
  /\ result.op = "consolidate"
  /\ result.status = "error"
  /\ result.invalidRefs = { 3 }
  /\ Len(getCurrentSessionThoughts(Store)) = 2
  /\ deadEnds = << >>


\* Does a thought of the session whose number is in the path carry an
\* extension of one of these impacts and types while no thought of the
\* session revises its number?
UnresolvedInPath(path, ts, impacts, types) ==
  \E i \in DOMAIN ts :
    /\ \E p \in DOMAIN path : path[p] = ts[i].thoughtNumber
    /\ \E e \in DOMAIN ts[i].extensions :
         ts[i].extensions[e].impact \in impacts /\ ts[i].extensions[e].type \in types
    /\ ~ \E j \in DOMAIN ts : ts[j].isRevision /\ ts[j].revisesThought = ts[i].thoughtNumber

\* Does a thought of the path carry a high or blocker critique while the
\* session's revision of it is not a member of the path?
RevisionLeftOut(path, ts) ==
  \E i \in DOMAIN ts :
    /\ \E p \in DOMAIN path : path[p] = ts[i].thoughtNumber
    /\ \E e \in DOMAIN ts[i].extensions :
         ts[i].extensions[e].impact \in { "high", "blocker" }
           /\ ts[i].extensions[e].type = "critique"
    /\ \E j \in DOMAIN ts :
         /\ ts[j].isRevision /\ ts[j].revisesThought = ts[i].thoughtNumber
         /\ \A k \in 1..(j - 1) :
              ~ (ts[k].isRevision /\ ts[k].revisesThought = ts[i].thoughtNumber)
         /\ \A p \in DOMAIN path : path[p] # ts[j].thoughtNumber

\* The conditions of the final answer, for the call consolidate(input) on the
\* session ts that returned the warnings in warned.
MayProceed(input, ts, warned) ==
  /\ input.verdict = "ready"
  /\ ~ UnresolvedInPath(input.winningPath, ts, { "blocker" }, ExtensionTypes)
  /\ ~ UnresolvedInPath(input.winningPath, ts, { "high" }, { "critique" })
  /\ ~ RevisionLeftOut(input.winningPath, ts)
  /\ validatePathConnectivity(input.winningPath, ts).valid
  /\ Cardinality(warned) <= 1

\* C23 (as claimed): consolidate reports canProceed = true if and only if
\* the verdict is "ready", no path member has an unresolved blocker or
\* unresolved high-impact critique, no critical thought's existing revision
\* is missing from the path, the path is connected and at most one warning
\* was raised.
C23_Claim ==
  [][ \A input \in AuditConsolidations :
        IsConsolidateCallOf(input)
          => (result'.canProceedToFinalAnswer
                <=> MayProceed(input, getCurrentSessionThoughts(Store), result'.warnings)) ]_vars

\* C23 (amended): the equivalence holds for the calls that are not hard
\* errors, those on a session that holds a thought with a path whose every
\* member numbers a thought of the session; a hard error reports
\* canProceed = false whatever the conditions.
C23_CanProceed ==
  [][ \A input \in AuditConsolidations :
        IsConsolidateCallOf(input)
          => IF getCurrentSessionThoughts(Store) = << >>
                  \/ NamesUnknownThought(input.winningPath, getCurrentSessionThoughts(Store))
               THEN ~ result'.canProceedToFinalAnswer
               ELSE result'.canProceedToFinalAnswer
                      <=> MayProceed(input, getCurrentSessionThoughts(Store),
                                     result'.warnings) ]_vars

\* The final answer was allowed without a warning on a session of three
\* thoughts of which one carries a blocker.
C23_Witness ==
  /\ result.op = "consolidate"
  /\ result.canProceedToFinalAnswer
  /\ result.warnings = {}
  /\ Len(getCurrentSessionThoughts(Store)) = 3
  /\ \E i \in DOMAIN thoughtHistory :
       HasExtensionOf(thoughtHistory[i], { "blocker" }, ExtensionTypes)


\* The dead ends that hold this path.
DeadEndsOf(path) == { i \in DOMAIN deadEnds : deadEnds[i].path = path }

\* Is every member of the path the number of a thought of the session?
NamesThoughts(path, sessionThoughts) ==
  \A p \in DOMAIN path :
    \E i \in DOMAIN sessionThoughts : sessionThoughts[i].thoughtNumber = path[p]

\* C24 (as claimed): after a consolidate call with verdict "needs_more_work"
\* on a path of existing thoughts the dead-end list holds exactly one entry
\* with that path.
C24_Claim ==
  [][ \A input \in AuditConsolidations :
        (/\ IsConsolidateCallOf(input)
         /\ input.verdict = "needs_more_work"
         /\ getCurrentSessionThoughts(Store) # << >>
         /\ NamesThoughts(input.winningPath, getCurrentSessionThoughts(Store)))
          => Cardinality(DeadEndsOf(input.winningPath)') = 1 ]_vars

\* C24 (amended): after a consolidate call with verdict "needs_more_work"
\* on a path of at least one number, all of existing thoughts, the dead-end
\* list holds exactly one entry with that path, the last one when the path
\* was not recorded before and the list as it was when it was; the empty
\* path is never recorded.
C24_DeadEndRecordedOnce ==
  [][ \A input \in AuditConsolidations :
        (/\ IsConsolidateCallOf(input)
         /\ input.verdict = "needs_more_work"
         /\ getCurrentSessionThoughts(Store) # << >>
         /\ NamesThoughts(input.winningPath, getCurrentSessionThoughts(Store)))
          => IF input.winningPath = << >>
               THEN deadEnds' = deadEnds /\ DeadEndsOf(<< >>)' = {}
               ELSE /\ Cardinality(DeadEndsOf(input.winningPath)') = 1
                    /\ IF DeadEndsOf(input.winningPath) = {}
                         THEN /\ deadEnds'[Len(deadEnds')].path = input.winningPath
                              /\ Len(deadEnds') = Len(deadEnds) + 1
                         ELSE deadEnds' = deadEnds ]_vars

\* The paths 1 and 1, 2 were given up in this order, and the call that just
\* returned gave up the path 1 again (the one path whose only warning is the
\* discard rate): the list still holds it once.
C24_Witness ==
  /\ Len(deadEnds) = 2
  /\ deadEnds[1].path = << 1 >>
  /\ deadEnds[2].path = << 1, 2 >>
  /\ result.op = "consolidate"
  /\ result.status = "success"
  /\ ~ result.canProceedToFinalAnswer
  /\ result.warnings = { "HIGH DISCARD RATE" }


\* C25: the dead-end list never holds more than 20 entries; when a dead
\* end is recorded at capacity the entry removed is the oldest one and the
\* remaining entries keep their order, followed by the new one.
C25_DeadEndsBoundedFifo ==
  /\ [](Len(deadEnds) <= 20)
  /\ [][ (Len(deadEnds) = 20 /\ deadEnds' # deadEnds /\ deadEnds' # << >>)
           => /\ Len(deadEnds') = 20
              /\ SubSeq(deadEnds', 1, 19) = Tail(deadEnds)
              /\ ~ DeadEndExists(deadEnds, deadEnds'[20].path) ]_vars

\* Twenty-one paths were given up: the list holds the second to the
\* twenty-first, in the order they were given up.
C25_Witness ==
  /\ Len(deadEnds) = 20
  /\ \A i \in 1..20 : deadEnds[i].path = DeadEndPath(i + 1)


\* The pending load that this step ends, if it ends one.
EndsLoad(i) ==
  /\ i \in DOMAIN fsQueue
  /\ fsQueue[i].kind = "load"
  /\ fsQueue' = Remove(fsQueue, i)
  /\ result'.op = "loadSession"

\* The TTL in milliseconds.
TTL_MS == SESSION_TTL_HOURS * MS_PER_HOUR

\* C26: a load within the 24h TTL that follows a completed save with no
\* mutation in between leaves a store equal to the saved one: the same
\* thoughts, branches, lastThoughtNumber, goal, session id and dead ends.
\* Whatever happened in between, a load that restores leaves exactly the
\* store the last completed save serialized.
C26_LoadRestoresSavedStore ==
  [][ \A i \in DOMAIN fsQueue :
        (EndsLoad(i) /\ result'.restored)
          => /\ fsQueue[i].data.ageMs <= TTL_MS
             /\ durable.kind = "full"
             /\ Store' = durable.content
             /\ (Store = durable.content => Store' = Store) ]_vars

\* A load has just restored the saved session of two thoughts and a dead
\* end.
C26_Witness ==
  /\ result = LoadResult(TRUE)
  /\ Len(thoughtHistory) = 2
  /\ Len(deadEnds) = 1
  /\ durable.kind = "full"
  /\ Store = durable.content
  /\ files[SESSION_FILE] = durable


\* The step ends a load that had found its file older than the TTL.
EndsExpiredLoad(i) ==
  /\ EndsLoad(i)
  /\ fsQueue[i].pc = "clearing"

ReadingLoads == { i \in PendingLoads : fsQueue[i].pc \in { "stat", "read" } }

\* C28 (as claimed): a load is serialized through the same mutex as the
\* saves: its file reads and its restoration of the in-memory state never
\* overlap a save or a file clear that is in progress.
C28_Claim == ReadingLoads # {} => InCriticalSection = {}


\* Is this step a step of a persistence operation (a save, a clear or a
\* load), as opposed to a call of the service, a crash or a start?
IsPersistenceStep ==
  result'.op \in { "io", "loadSession.stat", "loadSession" }

\* Does this step move the save i into its catch block?
SaveFails(i) ==
  /\ fsQueue[i].kind = "save"
  /\ fsQueue[i].pc # "cleanup"
  /\ i \in DOMAIN fsQueue'
  /\ fsQueue'[i].id = fsQueue[i].id
  /\ fsQueue'[i].pc = "cleanup"

\* C30: an I/O error during a save, a file clear or a load is swallowed.
\* No step of a persistence operation ends the process; the steps of saves
\* and clears never change the store, and a load changes it only when it
\* restores.  A save that fails goes on to its cleanup with the store and
\* the files as they were, and a load that fails returns false with the
\* store as it was.  (The calls that queued the operations have returned
\* before the operations start.)
C30_IoErrorsAreSwallowed ==
  [][ /\ (IsPersistenceStep =>
            (alive' /\ (Store' # Store => result' = LoadResult(TRUE))))
      /\ \A i \in DOMAIN fsQueue :
           /\ (SaveFails(i) => (Store' = Store /\ alive' /\ files' = files))
           /\ ((EndsLoad(i) /\ ~ result'.restored) => (Store' = Store /\ alive')) ]_vars

\* The write of the save of a stored thought has failed: the catch block is
\* running, the process is alive and the store holds the thought.
C30_Witness ==
  /\ alive
  /\ Len(fsQueue) = 1
  /\ fsQueue[1].kind = "save"
  /\ fsQueue[1].pc = "cleanup"
  /\ Len(thoughtHistory) = 1
  /\ files[SESSION_FILE] = NoFile


\* Is this step one of the mutations after which a save is scheduled: an
\* accepted thought, an accepted batch, a recorded dead end or an added
\* extension?
IsSavedMutation ==
  \/ result'.op = "processThought" /\ ~ result'.isError
       /\ Len(thoughtHistory') > 0 /\ thoughtHistory' # thoughtHistory
  \/ result'.op = "submitSession" /\ result'.status = "accepted"
  \/ result'.op = "consolidate" /\ deadEnds' # deadEnds
  \/ result'.op = "extendThought" /\ result'.status = "success"

\* Does the session file hold the store (no file standing for a store
\* without thoughts and dead ends)?
SessionFileIsStore ==
  IF files[SESSION_FILE].kind = "full" THEN files[SESSION_FILE].content = Store
  ELSE thoughtHistory = << >> /\ deadEnds = << >>

\* C29 (as claimed): a save is scheduled after each mutation of the store
\* (accepted thought, accepted batch, recorded dead end, added extension),
\* so the session file equals the in-memory state once the pending
\* persistence operations have completed without I/O error.
C29_Claim ==
  /\ [][ IsSavedMutation
           => /\ Len(fsQueue') > Len(fsQueue)
              /\ fsQueue'[Len(fsQueue')].kind = "save" ]_vars
  /\ [](fsQueue = << >> => SessionFileIsStore)


\* C31: the adaptive stagnation threshold is 0.60 + min(0.25, historyLength
\* x 0.015) (here in thousandths), lies in [0.60, 0.85] for every history
\* length >= 0, and does not decrease when the history length grows.
C31_ThresholdMonotoneBounded ==
  /\ [](result.op = "getStagnationThreshold"
          => /\ result.threshold >= 600
             /\ result.threshold <= 850
             /\ result.threshold =
                  600 + (IF 15 * result.thoughtCount < 250
                           THEN 15 * result.thoughtCount ELSE 250))
  /\ [][ (/\ result.op = "getStagnationThreshold"
          /\ result'.op = "getStagnationThreshold"
          /\ result.thoughtCount <= result'.thoughtCount)
           => result.threshold <= result'.threshold ]_vars

\* The threshold of a history of 17 thoughts, the first length at which the
\* maximum applies (17 x 0.015 = 0.255 > 0.25).
C31_Witness ==
  /\ result.op = "getStagnationThreshold"
  /\ result.thoughtCount = 17
  /\ result.threshold = 850


\* C32 (as claimed): a hard-rejected single submission changes nothing in
\* the store, whatever its thoughtNumber (1 included): thoughts, branches,
\* dead ends, goal, session id and lastThoughtNumber are exactly as before
\* the call.
C32_Claim ==
  [][ \A input \in StoreInputs :
        (IsCallOf(input) /\ result'.op = "processThought" /\ result'.isError
         /\ result'.warning \in HardRejections)
          => /\ thoughtHistory' = thoughtHistory
             /\ branches' = branches
             /\ deadEnds' = deadEnds
             /\ sessionGoal' = sessionGoal
             /\ currentSessionId' = currentSessionId
             /\ lastThoughtNumber' = lastThoughtNumber ]_vars


\* C33 (as claimed): after an accepted batch the session goal of the store
\* is the goal submitted with that batch.
C33_Claim ==
  [][ \A input \in SessionBatches :
        (IsBatchCallOf(input) /\ result'.status = "accepted")
          => sessionGoal' = input.goal ]_vars


(***************************************************************************)
(* SpecLive: persistence that keeps being requested.  Thoughts and resets  *)
(* arrive for as long as fewer than MaxPendingFs operations are pending;   *)
(* writeFile and rename may fail.  The process stays up.  Fairness: every  *)
(* file system call settles (fs/promises resolves or rejects), and the     *)
(* event loop runs the continuation of a settled promise.                  *)
(***************************************************************************)

LiveProcessThought ==
  \E input \in FsInputs :
    /\ alive
    /\ Len(fsQueue) < MaxPendingFs
    /\ Commit(processThought(Store, input, clock), FALSE)

LiveResetSession ==
  /\ alive
  /\ Len(fsQueue) < MaxPendingFs
  /\ Commit(resetSession(Store), FALSE)

\* A step of a pending persistence operation.
FsStep ==
  \/ BeginOperation
  \/ WriteOpen
  \/ WriteDone
  \/ Rename
  \/ SaveFail
  \/ Cleanup
  \/ Unlink

NextLive ==
  \/ LiveProcessThought
  \/ LiveResetSession
  \/ BeginOperation
  \/ WriteOpen
  \/ WriteDone
  \/ Rename
  \/ SaveFail
  \/ Cleanup
  \/ Unlink

SpecLive == Init /\ [][NextLive]_vars /\ WF_vars(FsStep)

\* Is the operation with this id pending, and has it passed its
\* `await currentLock`?
IsPending(id) == \E i \in DOMAIN fsQueue : fsQueue[i].id = id
IsWaiting(id) ==
  \E i \in DOMAIN fsQueue : fsQueue[i].id = id /\ fsQueue[i].pc = "waiting"
IsRunning(id) ==
  \E i \in DOMAIN fsQueue : fsQueue[i].id = id /\ fsQueue[i].pc # "waiting"

\* C34: every requested persistence operation eventually passes its await
\* of the lock, and every operation that has passed it eventually releases
\* the lock and is over, also when an operation before it failed: a pending
\* save is never starved.
C34_EveryOperationRunsAndReleases ==
  \A id \in 1..MaxPendingFs :
    /\ IsWaiting(id) ~> IsRunning(id)
    /\ IsRunning(id) ~> ~ IsPending(id)

\* A save has passed its await of the lock while the temp file still shows
\* the interrupted write of a save before it, whose cleanup did not remove
\* the file.
C34_Witness ==
  /\ files[TEMP_FILE] = PartialFile
  /\ \E i \in DOMAIN fsQueue : fsQueue[i].kind = "save" /\ fsQueue[i].pc = "write"
  /\ \A i \in DOMAIN fsQueue : fsQueue[i].pc \in { "waiting", "write" }


(***************************************************************************)
(* SpecOrder: submissions that break several rules at once.  The session   *)
(* is built from fresh thoughts that are admitted; every other submission  *)
(* is a fresh thought that names a branch origin no session holds (and    *)
(* whose number may be taken), or a revision (whose target may be missing  *)
(* or repeated word for word) with or without such a branch origin.        *)
(***************************************************************************)

\* A thought number that is never stored.
UnknownThought == MaxThoughtNumber + 1

OrderPlainInputs ==
  { ThoughtInput(n, t, FALSE, 0, 0, "", 0, G_NONE) :
      n \in 1..MaxThoughtNumber, t \in { T_CACHE, T_PARSE } }

OrderFaultyInputs ==
  { ThoughtInput(n, t, FALSE, 0, UnknownThought, "b1", 0, G_NONE) :
      n \in 1..MaxThoughtNumber, t \in { T_CACHE, T_PARSE } }
  \cup
  { ThoughtInput(n, t, TRUE, r, from, "b1", 0, G_NONE) :
      n \in 1..MaxThoughtNumber, t \in { T_CACHE, T_PARSE },
      r \in { 0, 1, UnknownThought }, from \in { 0, UnknownThought } }

OrderThought ==
  \E input \in OrderPlainInputs :
    /\ alive
    /\ Fits(processThought(Store, input, clock), MaxPending)
    /\ ~ processThought(Store, input, clock).result.isError
    /\ Commit(processThought(Store, input, clock), FALSE)

OrderFaultyThought ==
  \E input \in OrderFaultyInputs :
    /\ alive
    /\ Fits(processThought(Store, input, clock), MaxPending)
    /\ Commit(processThought(Store, input, clock), FALSE)

NextOrder ==
  \/ OrderThought
  \/ OrderFaultyThought
  \/ BeginOperation
  \/ WriteOpen
  \/ WriteDone
  \/ Rename
  \/ Unlink

SpecOrder == Init /\ [][NextOrder]_vars

\* The thoughts of the session that the validations of processThought(input)
\* read: those left by the auto-reset.
SeenBy(input) == getCurrentSessionThoughts(SessionOpened(Store, input, clock))

\* The three rules a submission can break.
BreaksDuplicate(input) ==
  /\ ~ input.isRevision
  /\ \E i \in DOMAIN SeenBy(input) : SeenBy(input)[i].thoughtNumber = input.thoughtNumber
BreaksBranch(input) ==
  /\ input.branchFromThought # 0
  /\ \A i \in DOMAIN SeenBy(input) :
       SeenBy(input)[i].thoughtNumber # input.branchFromThought
BreaksRevision(input) ==
  /\ input.isRevision
  /\ RevisionFinding(input, SeenBy(input)) # NoWarning

RejectedAs(message) ==
  /\ result'.op = "processThought"
  /\ result'.isError
  /\ result'.warning = message

\* C35: a non-empty submission that breaks several rules is rejected with the
\* finding of the first failing check in the order duplicate number, branch
\* origin, revision.
C35_ChecksInFixedOrder ==
  [][ \A input \in OrderPlainInputs \cup OrderFaultyInputs :
        (IsCallOf(input) /\ ~ IsEmptyThought(input))
          => /\ BreaksDuplicate(input) => RejectedAs("duplicate")
             /\ (~ BreaksDuplicate(input) /\ BreaksBranch(input))
                  => RejectedAs("invalid_branch")
             /\ (~ BreaksDuplicate(input) /\ ~ BreaksBranch(input)
                   /\ BreaksRevision(input))
                  => RejectedAs(RevisionFinding(input, SeenBy(input))) ]_vars

\* A fresh thought with a taken number and an unknown branch origin was
\* rejected as a duplicate, in a session of two thoughts.
C35_Witness ==
  /\ result.op = "processThought"
  /\ result.isError
  /\ result.warning = "duplicate"
  /\ Len(thoughtHistory) = 2


(***************************************************************************)
(* SpecBatch: every batch of up to MaxBurst different thoughts out of      *)
(* three fresh thoughts and a revision, in every order, alone or with a    *)
(* consolidation whose winning path skips thought 2.                       *)
(***************************************************************************)

BatchPool == { B1, B2, B3, R2 }

BatchThoughts ==
  { s \in UNION { [ 1..n -> BatchPool ] : n \in 1..MaxBurst } :
      \A i, j \in DOMAIN s : s[i] = s[j] => i = j }

BatchConsolidations ==
  { NoConsolidation, NeedsMoreWork(<< 1, 3 >>), Ready(<< 1, 3 >>) }

BatchInputs ==
  { BurstInput(G_GOAL, s, c) : s \in BatchThoughts, c \in BatchConsolidations }

BatchSubmit ==
  \E input \in BatchInputs :
    /\ alive
    /\ Len(fsQueue) < MaxPending
    /\ Commit(submitSession(Store, input, clock), FALSE)

NextBatch ==
  \/ BatchSubmit
  \/ BeginOperation
  \/ WriteOpen
  \/ WriteDone
  \/ Rename

SpecBatch == Init /\ [][NextBatch]_vars

\* Is a gap in the winning path the only thing validate can hold against
\* the batch?
SoleDefectIsGap(input) ==
  /\ input.consolidation # NoConsolidation
  /\ BurstGaps(input.consolidation.winningPath, input.thoughts) # {}
  /\ BurstBlocked(input.consolidation, input.thoughts) = {}
  /\ BurstValidate(input.goal, input.thoughts, NoConsolidation).passed

\* C36: a batch whose only defect is a gap in its winning path is accepted
\* with the warning and committed: the store holds one record per thought
\* of the batch.
C36_PathGapIsWarningOnly ==
  [][ \A input \in BatchInputs :
        (IsBatchCallOf(input) /\ SoleDefectIsGap(input))
          => /\ result'.status = "accepted"
             /\ "path_gaps" \in result'.warnings
             /\ Len(thoughtHistory') = Len(input.thoughts)
             /\ \A i \in DOMAIN input.thoughts :
                  HasThought(thoughtHistory', input.thoughts[i].thoughtNumber) ]_vars

\* A batch of three thoughts was accepted with the warning of a path gap.
C36_Witness ==
  /\ result.op = "submitSession"
  /\ result.status = "accepted"
  /\ "path_gaps" \in result.warnings
  /\ Len(thoughtHistory) = 3

\* The orders in which the thoughts of a batch can be listed.
Permuted(thoughts) ==
  { [ i \in DOMAIN thoughts |-> thoughts[p[i]] ] :
      p \in { q \in [ DOMAIN thoughts -> DOMAIN thoughts ] :
                \A i, j \in DOMAIN thoughts : q[i] = q[j] => i = j } }

\* C37 (as claimed): every order of the thoughts of a batch receives the
\* same verdict.
C37_Claim ==
  [][ \A input \in BatchInputs :
        IsBatchCallOf(input)
          => \A listed \in Permuted(input.thoughts) :
               submitSession(Store, BurstInput(input.goal, listed, input.consolidation),
                             clock).result.status = result'.status ]_vars


(***************************************************************************)
(* SpecForeign: loadSession against session files that something else than *)
(* saveSession wrote: the file system holds whatever was put there, and    *)
(* loadSession checks it only as far as Array.isArray of history and       *)
(* branches.                                                               *)
(***************************************************************************)

\* The history of a foreign file: one thought, of no session of this store.
ForeignHistory == << RecordOf(ThoughtInput(1, T_PARSE, FALSE, 0, 0, "", 0, G_NONE), 0) >>

ForeignThought ==
  \E input \in LoadInputs :
    /\ alive
    /\ Len(processThought(Store, input, clock).store.thoughtHistory) <= MaxLoadHistory
    /\ Len(fsQueue) < MaxPendingFs
    /\ Commit(processThought(Store, input, clock), FALSE)

\* The session file is replaced from outside.
ForeignWrite ==
  \E historyIsArray \in BOOLEAN :
    /\ files[SESSION_FILE] # ForeignFile(historyIsArray, ForeignHistory)
    /\ files' = [ files EXCEPT ![SESSION_FILE] = ForeignFile(historyIsArray, ForeignHistory) ]
    /\ result' = [ op |-> "foreignWrite" ]
    /\ UNCHANGED << storeVars, clock, cacheVars, fsQueue, fsLock, alive, heldLog, durable >>

ForeignLoadStat == \E i \in DOMAIN fsQueue : FsLoadStat(i, 0)

NextForeign ==
  \/ ForeignThought
  \/ ForeignWrite
  \/ LoadSession
  \/ ForeignLoadStat
  \/ LoadRead
  \/ LoadFail
  \/ BeginOperation
  \/ WriteOpen
  \/ WriteDone
  \/ Rename

SpecForeign == Init /\ [][NextForeign]_vars

\* C38 (as claimed): a load that returns false leaves every part of the
\* store as it was.
C38_Claim ==
  [][ (result'.op = "loadSession" /\ ~ result'.restored)
        => /\ thoughtHistory' = thoughtHistory
           /\ branches' = branches
           /\ lastThoughtNumber' = lastThoughtNumber
           /\ sessionGoal' = sessionGoal
           /\ currentSessionId' = currentSessionId
           /\ deadEnds' = deadEnds ]_vars


(***************************************************************************)
(* Recall: RecallService and ThinkingService.recallThought                 *)
(*                                                                         *)
(* The index holds the search items of the thoughts it was built from.     *)
(* A search is followed for searchIn = 'thoughts' and for queries that     *)
(* occur literally in a text or nowhere: a literal occurrence is a match   *)
(* of score 0 for Fuse, below every threshold.                             *)
(***************************************************************************)

RECALL_DEFAULT_LIMIT == 3

\* The item buildSearchItems pushes for the text of a thought.
SearchItem(t) ==
  [ thoughtNumber |-> t.thoughtNumber, thought |-> t.thought, sessionId |-> t.sessionId ]

buildSearchItems(thoughts) == [ i \in DOMAIN thoughts |-> SearchItem(thoughts[i]) ]

\* Does the query occur in the text?
Occurs(text, query) == \E i \in 1..Len(text) : MatchesAt(text, i, query)

\* The items of the index that match, in the order of the index.
RECURSIVE SearchFrom(_, _, _)
SearchFrom(items, query, i) ==
  IF i > Len(items) THEN << >>
  ELSE (IF Occurs(items[i].thought, query) THEN << items[i] >> ELSE << >>)
         \o SearchFrom(items, query, i + 1)

\* Array.prototype.slice(0, limit)
Slice0(s, limit) == IF Len(s) > limit THEN SubSeq(s, 1, limit) ELSE s

RecallResult(input, matches) ==
  [ op |-> "recallThought", scope |-> input.scope, query |-> input.query,
    matches |-> matches ]

\* `if (this.fuseIndexDirty || !this.fuseIndex) this.rebuildFuseIndex(thoughts)`
Rebuilt(index, dirty, thoughts) ==
  IF dirty \/ ~ index.built
    THEN [ built |-> TRUE, thoughts |-> buildSearchItems(thoughts) ]
    ELSE index

\* RecallService.recallThought(input, thoughts): the index and the flag it
\* leaves, and the result.
RecallSearch(index, dirty, input, thoughts) ==
  IF Len(Trim(input.query)) < 2
    THEN [ index |-> index, dirty |-> dirty, result |-> RecallResult(input, << >>) ]
    ELSE [ index  |-> Rebuilt(index, dirty, thoughts),
           dirty  |-> FALSE,
           result |-> RecallResult(input,
                        Slice0(SearchFrom(Rebuilt(index, dirty, thoughts).thoughts,
                                          input.query, 1),
                               RECALL_DEFAULT_LIMIT)) ]

\* ThinkingService.recallThought(input)
recallThought(st, index, dirty, input) ==
  RecallSearch(index, dirty, input,
               IF input.scope = "current" THEN getCurrentSessionThoughts(st)
               ELSE st.thoughtHistory)

(***************************************************************************)
(* SpecRecall: fresh thoughts, explicit resets and recall searches.        *)
(***************************************************************************)

RecallInputs ==
  { ThoughtInput(n, t, FALSE, 0, 0, "", 0, G_NONE) :
      n \in 1..MaxHistory, t \in { T_CACHE, T_PARSE } }

\* A word of T_CACHE, a word of T_PARSE and a query that is too short.
RecallQueries == { "cache", "token", "c" }

RecallSearches ==
  { [ scope |-> scope, query |-> query ] :
      scope \in { "current", "all" }, query \in RecallQueries }

RecallThink ==
  \E input \in RecallInputs :
    /\ alive
    /\ Fits(processThought(Store, input, clock), MaxPending)
    /\ Commit(processThought(Store, input, clock), FALSE)

RecallReset ==
  /\ alive
  /\ Len(fsQueue) < MaxPending
  /\ Commit(resetSession(Store), FALSE)

Recall ==
  \E input \in RecallSearches :
    /\ alive
    /\ fuseIndex' = recallThought(Store, fuseIndex, fuseIndexDirty, input).index
    /\ fuseIndexDirty' = recallThought(Store, fuseIndex, fuseIndexDirty, input).dirty
    /\ result' = recallThought(Store, fuseIndex, fuseIndexDirty, input).result
    /\ UNCHANGED << storeVars, clock, fsVars, heldLog, durable, wordCache >>

NextRecall ==
  \/ RecallThink
  \/ RecallReset
  \/ Recall
  \/ BeginOperation
  \/ WriteOpen
  \/ WriteDone
  \/ Rename
  \/ Unlink

SpecRecall == Init /\ [][NextRecall]_vars

\* C39 (as claimed): a recall search over the current session returns
\* thoughts that the store holds, never one of a session that a reset
\* destroyed.
C39_Claim ==
  (result.op = "recallThought" /\ result.scope = "current")
    => \A k \in DOMAIN result.matches :
         \E i \in DOMAIN thoughtHistory :
           SearchItem(thoughtHistory[i]) = result.matches[k]


(***************************************************************************)
(* The word cache of text-analysis.ts: a Map from the raw text to its      *)
(* token set.  A Map keeps its keys in insertion order; the model keeps    *)
(* the keys, the value of a key being WordSetOf(key).                      *)
(***************************************************************************)

WORD_CACHE_LIMIT == 50

\* wordCache.has / a truthy wordCache.get: a Set is truthy, also an empty one.
IsCached(cache, text) == \E i \in DOMAIN cache : cache[i] = text

\* `const firstKey = wordCache.keys().next().value;
\*  if (firstKey) wordCache.delete(firstKey)`: the empty string is falsy.
EvictFirst(cache) == IF Head(cache) # "" THEN Tail(cache) ELSE cache

\* The cache after getWordSet(text).
getWordSet(cache, text) ==
  IF IsCached(cache, text) THEN cache
  ELSE Append(IF Len(cache) >= WORD_CACHE_LIMIT THEN EvictFirst(cache) ELSE cache,
              text)

\* clearWordCache()
clearWordCache(cache) == << >>

(***************************************************************************)
(* SpecCache: getWordSet (called by calculateJaccardSimilarity for each of *)
(* its two texts) with the empty string, with the oldest cached string and *)
(* with strings never seen before; clearWordCache.                         *)
(***************************************************************************)

\* The k-th non-empty string: two letters.
CacheText(k) ==
  LowerChars[((k - 1) \div Len(LowerChars)) + 1] \o LowerChars[((k - 1) % Len(LowerChars)) + 1]

\* The number of the newest of these strings in the cache; 0 when none is.
HighestCached ==
  IF \E k \in 1..MaxCacheTexts : IsCached(wordCache, CacheText(k))
    THEN CHOOSE k \in 1..MaxCacheTexts :
           /\ IsCached(wordCache, CacheText(k))
           /\ \A j \in (k + 1)..MaxCacheTexts : ~ IsCached(wordCache, CacheText(j))
    ELSE 0

ComparedTexts ==
  { "" }
    \cup (IF HighestCached < MaxCacheTexts THEN { CacheText(HighestCached + 1) } ELSE {})
    \cup (IF wordCache # << >> THEN { Head(wordCache) } ELSE {})

GetWordSet ==
  \E text \in ComparedTexts :
    /\ alive
    /\ wordCache' = getWordSet(wordCache, text)
    /\ result' = [ op |-> "getWordSet", text |-> text, words |-> WordSetOf(text) ]
    /\ UNCHANGED << storeVars, clock, fsVars, heldLog, durable, fuseIndex, fuseIndexDirty >>

ClearWordCache ==
  /\ alive
  /\ wordCache # << >>
  /\ wordCache' = clearWordCache(wordCache)
  /\ result' = [ op |-> "clearWordCache" ]
  /\ UNCHANGED << storeVars, clock, fsVars, heldLog, durable, fuseIndex, fuseIndexDirty >>

NextCache ==
  \/ GetWordSet
  \/ ClearWordCache

SpecCache == Init /\ [][NextCache]_vars

CacheBounded == Len(wordCache) <= WORD_CACHE_LIMIT

\* A string that is not cached is cached at capacity: the oldest entry goes.
EvictsOldest ==
  (/\ result'.op = "getWordSet"
   /\ Len(wordCache) >= WORD_CACHE_LIMIT
   /\ ~ IsCached(wordCache, result'.text))
    => wordCache' = Append(Tail(wordCache), result'.text)

\* C40 (as claimed): the word cache never holds more than WORD_CACHE_LIMIT
\* entries, whatever strings are compared, the empty string included; a new
\* string cached at capacity evicts the oldest entry first.
C40_Claim ==
  /\ []CacheBounded
  /\ [][EvictsOldest]_vars

====
